---- MODULE Spec2Model ----
(***************************************************************************)
(* A model of the continuous-collision-detection stepping loop of          *)
(* OpenSurgSim, SurgSim/Physics/CcdCollisionLoop.cpp:                      *)
(*   CcdCollisionLoop::doUpdate, ::filterContacts, ::clearContacts         *)
(* and of the unit tests of the earliest-impact filter in the same file.   *)
(*                                                                         *)
(* A double is modelled as an exact extended rational <<n, d>>:            *)
(*   d > 0      the finite value n/d, in lowest terms                      *)
(*   <<1, 0>>   +infinity     <<-1, 0>>  -infinity     <<0, 0>>  NaN       *)
(* so that 1.0 / 0.0, 0.0 * infinity and comparisons with NaN come out as  *)
(* IEEE-754 arithmetic makes them.  Rounding is not modelled.              *)
(***************************************************************************)
EXTENDS Integers, Sequences, FiniteSets, TLC

\* ------------------------------------------------------------------ bounds
\* number of collision pairs in the physics state
NumPairs == 2
\* most contacts the CCD narrow phase appends to one pair in one pass
MaxDetect == 1
\* most contacts the filter tests put on the pairs altogether
MaxTestContacts == 3

\* ------------------------------------------------------- program constants
\* m_maxIterations(20)
DefaultMaxIterations == 20
\* m_epsilonFactor(100)
DefaultEpsilonFactor == 100
\* std::numeric_limits<double>::max(): a finite value above every contact time
\* (the true value, about 1.8e308, only has to exceed every time in [0, 1])
DBL_MAX_VALUE == 1000000

\* -------------------------------------------------------- double arithmetic
Abs(x) == IF x < 0 THEN -x ELSE x

Sign(x) == IF x > 0 THEN 1 ELSE IF x < 0 THEN -1 ELSE 0

RECURSIVE GCD(_, _)
GCD(a, b) == IF b = 0 THEN a ELSE GCD(b, a % b)

\* the double n/d
Dbl(n, d) ==
    IF d = 0 THEN <<Sign(n), 0>>
    ELSE LET g == GCD(Abs(n), Abs(d))
             s == Sign(d)
         IN  <<(s * n) \div g, (s * d) \div g>>

Zero == <<0, 1>>

One == <<1, 1>>

NaN == <<0, 0>>

DBL_MAX == <<DBL_MAX_VALUE, 1>>

IsNaN(a) == a = NaN

Neg(a) == <<-a[1], a[2]>>

\* a + b
Add(a, b) ==
    IF a[2] = 0 /\ b[2] = 0
    THEN (IF a = b THEN a ELSE NaN)
    ELSE Dbl(a[1] * b[2] + b[1] * a[2], a[2] * b[2])

\* a - b
Sub(a, b) == Add(a, Neg(b))

\* a * b
Mul(a, b) == Dbl(a[1] * b[1], a[2] * b[2])

\* a / b  (x / 0.0 is an infinity of x's sign, 0.0 / 0.0 is NaN)
Div(a, b) ==
    LET s == IF b[1] < 0 THEN -1 ELSE 1
    IN  Dbl(s * a[1] * b[2], s * a[2] * b[1])

\* a < b  (false when either is NaN)
Lt(a, b) ==
    /\ ~IsNaN(a)
    /\ ~IsNaN(b)
    /\ IF a[2] = 0 /\ b[2] = 0
       THEN a[1] < b[1]
       ELSE a[1] * b[2] < b[1] * a[2]

\* a > b
Gt(a, b) == Lt(b, a)

\* a <= b
Le(a, b) == Lt(a, b) \/ (a = b /\ ~IsNaN(a))

\* a >= b
Ge(a, b) == Le(b, a)

\* std::min<double>(a, b)
StdMin(a, b) == IF Lt(b, a) THEN b ELSE a

\* -------------------------------------------------------- Math::Vector3d
\* a vector of three doubles
Vec(x, y, z) == <<Dbl(x, 1), Dbl(y, 1), Dbl(z, 1)>>

VZero == Vec(0, 0, 0)

VAdd(a, b) == <<Add(a[1], b[1]), Add(a[2], b[2]), Add(a[3], b[3])>>

VSub(a, b) == <<Sub(a[1], b[1]), Sub(a[2], b[2]), Sub(a[3], b[3])>>

VScale(k, a) == <<Mul(k, a[1]), Mul(k, a[2]), Mul(k, a[3])>>

VNeg(a) == <<Neg(a[1]), Neg(a[2]), Neg(a[3])>>

Dot(a, b) == Add(Add(Mul(a[1], b[1]), Mul(a[2], b[2])), Mul(a[3], b[3]))

Cross(a, b) ==
    <<Sub(Mul(a[2], b[3]), Mul(a[3], b[2])),
      Sub(Mul(a[3], b[1]), Mul(a[1], b[3])),
      Sub(Mul(a[1], b[2]), Mul(a[2], b[1]))>>

\* Vector3d::isZero()
isZero(a) == a = VZero

\* Vector3d::normalized(): the unit vector v / |v| is written by its direction
\* v, so that no square root is taken; the direction zero stands for 0 / 0
normalized(v) == [dir |-> v]

\* the double num / sqrt(norm2); a double x itself is OverNorm(x, One)
OverNorm(num, norm2) == [num |-> num, norm2 |-> norm2]

\* w.dot(u) for a unit vector u
DotUnit(w, u) == OverNorm(Dot(w, u.dir), Dot(u.dir, u.dir))

\* std::abs
StdAbs(a) == IF Lt(a, Zero) THEN Neg(a) ELSE a

\* x >= 0 for x = num / sqrt(norm2): false when x is 0 / 0
NonNegative(x) == Gt(x.norm2, Zero) /\ Ge(x.num, Zero)

\* a RigidTransform3d without rotation is written by its translation;
\* pose.inverse() * p
InverseTimes(pose, p) == VSub(p, pose)

\* ------------------------------------------------------------------- state
VARIABLES
    pc,              \* position of the control in doUpdate, or in the filter test
    m_maxIterations, \* CcdCollisionLoop::m_maxIterations
    m_epsilonFactor, \* CcdCollisionLoop::m_epsilonFactor
    pairType,        \* CollisionPair::getType() of every pair of the state
    contacts,        \* CollisionPair::getContacts() of every pair
    state,           \* the PhysicsManagerState handed to doUpdate
    lastState,       \* doUpdate's local lastState
    iterations,      \* doUpdate's local size_t iterations
    toi,             \* doUpdate's local toi: the accumulated time of impact
    localToi,        \* doUpdate's local localToi (the filter's out parameter)
    epsilon,         \* doUpdate's local epsilon (the filter's argument)
    ccdTime,         \* the time last handed to UpdateCcdData::update
    found,           \* what the last call of filterContacts returned
    warned,          \* the "Maxed out iterations" warning has been logged
    returned,        \* what doUpdate returned: <<TRUE, state>> once it has
    bodyCount,       \* history: executions of the loop body so far
    calls,           \* history: the computations run by the current iteration
    hist,            \* history: the arguments of the last call of filterContacts
                     \* (its contact lists are forgotten once the contacts are
                     \* cleared or changed by hand)
    exit,            \* history: the way the loop was left
    everContact,     \* history: some detection pass has produced a contact
    dcdIn,           \* calculateDcdContact: the two meshes, their poses and trees
    dcdAt,           \* calculateDcdContact: the positions of its three loops
    dcdContacts,     \* calculateDcdContact: the local list contacts
    dcdTested,       \* history: the calls of the triangle test and what they found
    ccdIn,           \* calculateCcdContact: the two shapes and poses at t0 and t1
    ccdAt,           \* calculateCcdContact: its loop counters and the locals of
                     \* the current triangle pair
    ccdContacts,     \* calculateCcdContact: the local list contacts
    ccdSeen,         \* history: what the tests of the current triangle pair
                     \* reported
    matrixA,         \* Math::resize: the matrix *A
    resizeCall,      \* history: the last call of Math::resize
    m_deviceConnected, \* OutputComponent::m_deviceConnected
    m_output,        \* OutputComponent::m_output, the OutputProducer
    deviceProducer,  \* the device holds m_output as its output producer
    outputLog,       \* history: the last call on the OutputComponent
    femState,        \* the previous and the current state of an FEM representation
    m_position,      \* the localization's m_position: element and coordinate
    calculated,      \* the last call of doCalculatePosition and its result
    detectionType,   \* DeformableCollisionRepresentation: getCollisionDetectionType()
    m_shape,         \* DeformableCollisionRepresentation::m_shape
    m_previousShape, \* DeformableCollisionRepresentation::m_previousShape
    odeStates,       \* the previous and current state of the deformable
    localActive,     \* Representation::isLocalActive()
    shapeLog         \* history: the last call of update

vars == <<pc, m_maxIterations, m_epsilonFactor, pairType, contacts, state,
          lastState, iterations, toi, localToi, epsilon, ccdTime, found,
          warned, returned, bodyCount, calls, hist, exit, everContact,
          dcdIn, dcdAt, dcdContacts, dcdTested,
          ccdIn, ccdAt, ccdContacts, ccdSeen,
          matrixA, resizeCall,
          m_deviceConnected, m_output, deviceProducer, outputLog,
          femState, m_position, calculated,
          detectionType, m_shape, m_previousShape, odeStates, localActive,
          shapeLog>>

\* the variables of the CCD loop and of its tests
loopVars == <<m_maxIterations, m_epsilonFactor, pairType, contacts, state,
              lastState, iterations, toi, localToi, epsilon, ccdTime, found,
              warned, returned, bodyCount, calls, hist, exit, everContact>>

\* the variables of the mesh-mesh contact calculator
meshVars == <<dcdIn, dcdAt, dcdContacts, dcdTested,
              ccdIn, ccdAt, ccdContacts, ccdSeen>>

dcdVars == <<dcdIn, dcdAt, dcdContacts, dcdTested>>

ccdVars == <<ccdIn, ccdAt, ccdContacts, ccdSeen>>

\* the variables of Math::resize
resizeVars == <<matrixA, resizeCall>>

\* the variables of the OutputComponent
outputVars == <<m_deviceConnected, m_output, deviceProducer, outputLog>>

\* the variables of the FEM localizations
localizationVars == <<femState, m_position, calculated>>

\* the variables of the DeformableCollisionRepresentation
deformableVars == <<detectionType, m_shape, m_previousShape, odeStates,
                    localActive, shapeLog>>

\* the variables of these four units
unitVars == <<resizeVars, outputVars, localizationVars, deformableVars>>

Pairs == 1 .. NumPairs

DISCRETE == "COLLISION_DETECTION_TYPE_DISCRETE"

CONTINUOUS == "COLLISION_DETECTION_TYPE_CONTINUOUS"

\* a Contact, as far as the loop reads it: its time
Contact(t) == [time |-> t]

\* contact times the CCD narrow phase reports, all in [0, 1]
DetectTimes == {Zero, Dbl(99, 100), One}

\* contact times and epsilons of the filter tests
TestTimes == {Dbl(1, 10), Dbl(2, 10), Dbl(3, 10)}

TestEpsilons == {Zero, Dbl(11, 100)}

\* the sequences over S of length at most n
RECURSIVE SeqsUpTo(_, _)
SeqsUpTo(S, n) ==
    IF n = 0 THEN {<<>>}
    ELSE LET shorter == SeqsUpTo(S, n - 1)
         IN  shorter \cup {Append(s, x) : s \in shorter, x \in S}

\* a PhysicsManagerState, as far as the loop's computations change it
FreshState == [constraints |-> FALSE, mlcp |-> "none", pushes |-> 0]

NoHist == [contacts |-> [p \in Pairs |-> <<>>], epsilon |-> Zero,
           localToi |-> Zero, toi |-> Zero]

\* doUpdate, lines 61-73: the CONTINUOUS pairs of the state, in the state's order
RECURSIVE CcdPairsFrom(_, _)
CcdPairsFrom(types, p) ==
    IF p > NumPairs THEN <<>>
    ELSE (IF types[p] = CONTINUOUS THEN <<p>> ELSE <<>>) \o CcdPairsFrom(types, p + 1)

\* the selection of lines 61-73 without its test of the type: every pair
ccdPairs_EveryPair == [p \in Pairs |-> p]

ccdPairs == CcdPairsFrom(pairType, 1)

\* no call of the mesh-mesh calculator is under way
MeshAtRest ==
    /\ dcdIn = <<>>
    /\ dcdAt = <<>>
    /\ dcdContacts = <<>>
    /\ dcdTested = <<>>
    /\ ccdIn = <<>>
    /\ ccdAt = <<>>
    /\ ccdContacts = <<>>
    /\ ccdSeen = <<>>

\* the state at the call of doUpdate on a loop with the given budget
\* no matrix is being resized
ResizeAtRest == matrixA = <<>> /\ resizeCall = <<>>

\* no OutputComponent has been constructed
OutputAtRest ==
    /\ m_deviceConnected = <<>>
    /\ m_output = <<>>
    /\ deviceProducer = <<>>
    /\ outputLog = <<>>

\* no localization has been constructed
LocalizationAtRest == femState = <<>> /\ m_position = <<>> /\ calculated = <<>>

\* no DeformableCollisionRepresentation has been constructed
DeformableAtRest ==
    /\ detectionType = <<>>
    /\ m_shape = <<>>
    /\ m_previousShape = <<>>
    /\ odeStates = <<>>
    /\ localActive = <<>>
    /\ shapeLog = <<>>

UnitsAtRest ==
    /\ ResizeAtRest
    /\ OutputAtRest
    /\ LocalizationAtRest
    /\ DeformableAtRest

InitWith(start, budget) ==
    /\ pc = start
    /\ MeshAtRest
    /\ UnitsAtRest
    /\ m_maxIterations = budget
    /\ m_epsilonFactor = DefaultEpsilonFactor
    /\ pairType \in [Pairs -> {DISCRETE, CONTINUOUS}]
    \* a CONTINUOUS pair starts a step without contacts; a DISCRETE pair holds
    \* what the discrete pass left on it (a discrete contact has the time 1.0)
    /\ contacts \in [Pairs -> {<<>>, <<Contact(One)>>}]
    /\ \A p \in Pairs : pairType[p] = CONTINUOUS => contacts[p] = <<>>
    /\ state = FreshState
    /\ lastState = FreshState
    /\ iterations = 0
    /\ toi = Zero
    /\ localToi = Zero
    /\ epsilon = Zero
    /\ ccdTime = Zero
    /\ found = FALSE
    /\ warned = FALSE
    /\ returned = <<FALSE, FreshState>>
    /\ bodyCount = 0
    /\ calls = <<>>
    /\ hist = NoHist
    /\ exit = "none"
    /\ everContact = FALSE

\* the loop as its constructor leaves it: m_maxIterations(20)
InitAt(start) == InitWith(start, DefaultMaxIterations)

Init == InitAt("idle")

\* the loop is not running and its pairs hold no contact
LoopAtRest ==
    /\ m_maxIterations = DefaultMaxIterations
    /\ m_epsilonFactor = DefaultEpsilonFactor
    /\ pairType = [p \in Pairs |-> DISCRETE]
    /\ contacts = [p \in Pairs |-> <<>>]
    /\ state = FreshState
    /\ lastState = FreshState
    /\ iterations = 0
    /\ toi = Zero
    /\ localToi = Zero
    /\ epsilon = Zero
    /\ ccdTime = Zero
    /\ found = FALSE
    /\ warned = FALSE
    /\ returned = <<FALSE, FreshState>>
    /\ bodyCount = 0
    /\ calls = <<>>
    /\ hist = NoHist
    /\ exit = "none"
    /\ everContact = FALSE

\* ------------------------------------------------------- filterContacts
\* lines 124-134: the earliest time of impact over the contacts of the pairs
RECURSIVE MinOverContacts(_, _)
MinOverContacts(cs, t) ==
    IF cs = <<>> THEN t
    ELSE MinOverContacts(Tail(cs), StdMin(t, Head(cs).time))

RECURSIVE EarliestToi(_, _, _)
EarliestToi(ps, cons, t) ==
    IF ps = <<>> THEN t
    ELSE EarliestToi(Tail(ps), cons, MinOverContacts(cons[Head(ps)], t))

\* remove_if with >= for >: the contacts at the threshold go as well
RECURSIVE RemoveLater_AtOrAfter(_, _)
RemoveLater_AtOrAfter(cs, t) ==
    IF cs = <<>> THEN <<>>
    ELSE IF Ge(Head(cs).time, t)
         THEN RemoveLater_AtOrAfter(Tail(cs), t)
         ELSE <<Head(cs)>> \o RemoveLater_AtOrAfter(Tail(cs), t)

\* lines 146-149: list::remove_if(contact->time > toi)
RECURSIVE RemoveLater(_, _)
RemoveLater(cs, t) ==
    IF cs = <<>> THEN <<>>
    ELSE IF Gt(Head(cs).time, t)
         THEN RemoveLater(Tail(cs), t)
         ELSE <<Head(cs)>> \o RemoveLater(Tail(cs), t)

\* lines 144-150: remove_if on every pair of ccdPairs
RECURSIVE FilterPairs(_, _, _)
FilterPairs(ps, cons, t) ==
    IF ps = <<>> THEN cons
    ELSE FilterPairs(Tail(ps),
                     [cons EXCEPT ![Head(ps)] = RemoveLater(cons[Head(ps)], t)], t)

\* filterContacts without the early return of lines 137-140
filterContacts_NoEmptyCheck(ps, cons, eps, currentToi) ==
    LET t == Add(EarliestToi(ps, cons, DBL_MAX), eps)
    IN  [ret |-> TRUE, contacts |-> FilterPairs(ps, cons, t), currentToi |-> t]

\* filterContacts with *currentToi written before the early return
filterContacts_WritesOnMiss(ps, cons, eps, currentToi) ==
    LET earliest == EarliestToi(ps, cons, DBL_MAX)
    IN  IF ~Lt(earliest, DBL_MAX)
        THEN [ret |-> FALSE, contacts |-> cons, currentToi |-> earliest]
        ELSE LET t == Add(earliest, eps)
             IN  [ret |-> TRUE, contacts |-> FilterPairs(ps, cons, t), currentToi |-> t]

\* filterContacts returning false after it has filtered as well
filterContacts_FalseOnImpact(ps, cons, eps, currentToi) ==
    LET earliest == EarliestToi(ps, cons, DBL_MAX)
    IN  IF ~Lt(earliest, DBL_MAX)
        THEN [ret |-> FALSE, contacts |-> cons, currentToi |-> currentToi]
        ELSE LET t == Add(earliest, eps)
             IN  [ret |-> FALSE, contacts |-> FilterPairs(ps, cons, t), currentToi |-> t]

\* filterContacts(ccdPairs, epsilon, &currentToi): what it returns, the contact
\* lists and *currentToi after the call
filterContacts(ps, cons, eps, currentToi) ==
    LET earliest == EarliestToi(ps, cons, DBL_MAX)
    IN  IF ~Lt(earliest, DBL_MAX)
        THEN [ret |-> FALSE, contacts |-> cons, currentToi |-> currentToi]
        ELSE LET t == Add(earliest, eps)
             IN  [ret |-> TRUE, contacts |-> FilterPairs(ps, cons, t), currentToi |-> t]

\* clearContacts(ccdPairs)
RECURSIVE clearContacts(_, _)
clearContacts(ps, cons) ==
    IF ps = <<>> THEN cons
    ELSE clearContacts(Tail(ps), [cons EXCEPT ![Head(ps)] = <<>>])

\* ---------------------------------------------------------------- doUpdate
\* the variables of the history that an action leaves alone are named in it

\* lines 58-78: the locals of doUpdate
Call ==
    /\ pc = "idle"
    /\ lastState' = state
    /\ iterations' = m_maxIterations
    /\ toi' = Zero
    /\ localToi' = Zero
    /\ pc' = "while"
    /\ UNCHANGED <<m_maxIterations, m_epsilonFactor, pairType, contacts, state,
                   epsilon, ccdTime, found, warned, returned, bodyCount, calls,
                   hist, exit, everContact>>
    /\ UNCHANGED meshVars
    /\ UNCHANGED unitVars

\* size_t --iterations: a value 2^64 - k, reached by decrementing 0, is written -k
PreDecrement(it) == it - 1

\* line 80: (--iterations > 0) on the decremented unsigned value
LoopContinues(it) == it # 0

\* executions of the body the model follows once the counter has wrapped
WrapCap == 3

\* line 80: while (--iterations > 0)
WhileTest ==
    /\ pc = "while"
    /\ iterations >= 0 \/ bodyCount < WrapCap
    /\ iterations' = PreDecrement(iterations)
    /\ IF LoopContinues(iterations')
       THEN pc' = "body" /\ exit' = exit
       ELSE pc' = "log" /\ exit' = "budget"
    /\ UNCHANGED <<m_maxIterations, m_epsilonFactor, pairType, contacts, state,
                   lastState, toi, localToi, epsilon, ccdTime, found, warned,
                   returned, bodyCount, calls, hist, everContact>>
    /\ UNCHANGED meshVars
    /\ UNCHANGED unitVars

\* line 82: toi += (1.0 - toi) * localToi
AccumulateToi(t, local) == Add(t, Mul(Sub(One, t), local))

\* line 83: 1.0 / ((1 - toi) * m_epsilonFactor)
Epsilon(t, factor) == Div(One, Mul(Sub(One, t), Dbl(factor, 1)))

\* lines 82-83: the first two statements of the loop body
BeginIteration ==
    /\ pc = "body"
    /\ toi' = AccumulateToi(toi, localToi)
    /\ epsilon' = Epsilon(toi', m_epsilonFactor)
    /\ bodyCount' = bodyCount + 1
    /\ calls' = <<>>
    /\ pc' = "advance"
    /\ UNCHANGED <<m_maxIterations, m_epsilonFactor, pairType, contacts, state,
                   lastState, iterations, localToi, ccdTime, found, warned,
                   returned, hist, exit, everContact>>
    /\ UNCHANGED meshVars
    /\ UNCHANGED unitVars

\* line 85: lastState = m_updateCcdData->update(localToi, lastState)
Advance ==
    /\ pc = "advance"
    /\ ccdTime' = localToi
    /\ calls' = Append(calls, "updateCcdData")
    /\ pc' = "detect"
    /\ UNCHANGED <<m_maxIterations, m_epsilonFactor, pairType, contacts, state,
                   lastState, iterations, toi, localToi, epsilon, found, warned,
                   returned, bodyCount, hist, exit, everContact>>
    /\ UNCHANGED meshVars
    /\ UNCHANGED unitVars

\* line 86: lastState = m_ccdCollision->update(dt, lastState): the narrow phase
\* appends the contacts it finds to the CONTINUOUS pairs
\* (printContacts, lines 88-91, only writes to the debug log)
Detect ==
    /\ pc = "detect"
    /\ \E new \in [Pairs -> SeqsUpTo({Contact(t) : t \in DetectTimes}, MaxDetect)] :
          /\ \A p \in Pairs : pairType[p] # CONTINUOUS => new[p] = <<>>
          /\ contacts' = [p \in Pairs |-> contacts[p] \o new[p]]
          /\ everContact' = (everContact \/ \E p \in Pairs : new[p] # <<>>)
    /\ calls' = Append(calls, "ccdCollision")
    /\ pc' = "filter"
    /\ UNCHANGED <<m_maxIterations, m_epsilonFactor, pairType, state, lastState,
                   iterations, toi, localToi, epsilon, ccdTime, found, warned,
                   returned, bodyCount, hist, exit>>
    /\ UNCHANGED meshVars
    /\ UNCHANGED unitVars

\* lines 94-97: if (!filterContacts(ccdPairs, epsilon, &localToi)) break;
Filter ==
    /\ pc = "filter"
    /\ LET r == filterContacts(ccdPairs, contacts, epsilon, localToi)
       IN  /\ contacts' = r.contacts
           /\ localToi' = r.currentToi
           /\ found' = r.ret
           /\ IF r.ret
              THEN pc' = "generate" /\ exit' = exit
              ELSE pc' = "log" /\ exit' = "noImpact"
    /\ hist' = [contacts |-> contacts, epsilon |-> epsilon,
                localToi |-> localToi, toi |-> toi]
    /\ calls' = Append(calls, "filterContacts")
    /\ UNCHANGED <<m_maxIterations, m_epsilonFactor, pairType, state, lastState,
                   iterations, toi, epsilon, ccdTime, warned, returned,
                   bodyCount, everContact>>
    /\ UNCHANGED meshVars
    /\ UNCHANGED unitVars

\* line 99: lastState = m_constraintGeneration->update(dt, lastState)
Generate ==
    /\ pc = "generate"
    /\ lastState' = [lastState EXCEPT !.constraints = TRUE]
    /\ calls' = Append(calls, "constraintGeneration")
    /\ pc' = "build"
    /\ UNCHANGED <<m_maxIterations, m_epsilonFactor, pairType, contacts, state,
                   iterations, toi, localToi, epsilon, ccdTime, found, warned,
                   returned, bodyCount, hist, exit, everContact>>
    /\ UNCHANGED meshVars
    /\ UNCHANGED unitVars

\* line 100: lastState = m_buildMlcp->update(dt, lastState)
Build ==
    /\ pc = "build"
    /\ lastState' = [lastState EXCEPT !.mlcp = "built"]
    /\ calls' = Append(calls, "buildMlcp")
    /\ pc' = "solve"
    /\ UNCHANGED <<m_maxIterations, m_epsilonFactor, pairType, contacts, state,
                   iterations, toi, localToi, epsilon, ccdTime, found, warned,
                   returned, bodyCount, hist, exit, everContact>>
    /\ UNCHANGED meshVars
    /\ UNCHANGED unitVars

\* what a solve of the complementarity problem can come to
SolveOutcomes == {"solved", "failed"}

\* line 101: lastState = m_solveMlcp->update(dt, lastState); update returns the
\* state alone, so the outcome of the solve stays inside the state
Solve ==
    /\ pc = "solve"
    /\ \E outcome \in SolveOutcomes :
          lastState' = [lastState EXCEPT !.mlcp = outcome]
    /\ calls' = Append(calls, "solveMlcp")
    /\ pc' = "push"
    /\ UNCHANGED <<m_maxIterations, m_epsilonFactor, pairType, contacts, state,
                   iterations, toi, localToi, epsilon, ccdTime, found, warned,
                   returned, bodyCount, hist, exit, everContact>>
    /\ UNCHANGED meshVars
    /\ UNCHANGED unitVars

\* the push with the clearContacts of line 104 left out after it
Push_SkipsClear ==
    /\ pc = "push"
    /\ lastState' = [lastState EXCEPT !.pushes = @ + 1]
    /\ calls' = Append(calls, "pushResults")
    /\ pc' = "check"
    /\ UNCHANGED <<m_maxIterations, m_epsilonFactor, pairType, contacts, state,
                   iterations, toi, localToi, epsilon, ccdTime, found, warned,
                   returned, bodyCount, hist, exit, everContact>>
    /\ UNCHANGED meshVars
    /\ UNCHANGED unitVars

\* line 102: lastState = m_pushResults->update(dt, lastState)
Push ==
    /\ pc = "push"
    /\ lastState' = [lastState EXCEPT !.pushes = @ + 1]
    /\ calls' = Append(calls, "pushResults")
    /\ pc' = "clear"
    /\ UNCHANGED <<m_maxIterations, m_epsilonFactor, pairType, contacts, state,
                   iterations, toi, localToi, epsilon, ccdTime, found, warned,
                   returned, bodyCount, hist, exit, everContact>>
    /\ UNCHANGED meshVars
    /\ UNCHANGED unitVars

\* line 104: clearContacts(ccdPairs)
Clear ==
    /\ pc = "clear"
    /\ contacts' = clearContacts(ccdPairs, contacts)
    /\ calls' = Append(calls, "clearContacts")
    /\ hist' = [hist EXCEPT !.contacts = NoHist.contacts]
    /\ pc' = "check"
    /\ UNCHANGED <<m_maxIterations, m_epsilonFactor, pairType, state, lastState,
                   iterations, toi, localToi, epsilon, ccdTime, found, warned,
                   returned, bodyCount, exit, everContact>>
    /\ UNCHANGED meshVars
    /\ UNCHANGED unitVars

\* line 106: toi > 1.0
ToiPassed(t) == Gt(t, One)

\* lines 106-109: if (toi > 1.0) break;
CheckToi ==
    /\ pc = "check"
    /\ IF ToiPassed(toi)
       THEN pc' = "log" /\ exit' = "toiPassed"
       ELSE pc' = "while" /\ exit' = exit
    /\ UNCHANGED <<m_maxIterations, m_epsilonFactor, pairType, contacts, state,
                   lastState, iterations, toi, localToi, epsilon, ccdTime, found,
                   warned, returned, bodyCount, calls, hist, everContact>>
    /\ UNCHANGED meshVars
    /\ UNCHANGED unitVars

\* the warning's condition off by one: true in the last iteration as well
MaxedOut_LastIteration(it) == it <= 1

\* line 112: the condition of SURGSIM_LOG_IF
MaxedOut(it) == it = 0

\* lines 112-114: the warning and the return
LogAndReturn ==
    /\ pc = "log"
    /\ warned' = MaxedOut(iterations)
    /\ returned' = <<TRUE, lastState>>
    /\ pc' = "done"
    /\ UNCHANGED <<m_maxIterations, m_epsilonFactor, pairType, contacts, state,
                   lastState, iterations, toi, localToi, epsilon, ccdTime, found,
                   bodyCount, calls, hist, exit, everContact>>
    /\ UNCHANGED meshVars
    /\ UNCHANGED unitVars

Next ==
    \/ Call
    \/ WhileTest
    \/ BeginIteration
    \/ Advance
    \/ Detect
    \/ Filter
    \/ Generate
    \/ Build
    \/ Solve
    \/ Push
    \/ Clear
    \/ CheckToi
    \/ LogAndReturn

Spec == Init /\ [][Next]_vars

\* ------------------------------------------------ doUpdate, other budgets
\* the values of the loop bound maxIterations
Budgets == 0 .. 3

BudgetInit == \E budget \in Budgets : InitWith("idle", budget)

BudgetSpec == BudgetInit /\ [][Next]_vars

\* ------------------------------------------------- the tests of the filter
\* TEST(CcdCollisionLoopTest, FilterContacts) and (..., FilterContactsWithEpsilon)
\* put contacts on CONTINUOUS pairs and call the filter on them

FilterInit == InitAt("test")

RECURSIVE TotalContacts(_, _)
TotalContacts(ps, cons) ==
    IF ps = <<>> THEN 0
    ELSE Len(cons[Head(ps)]) + TotalContacts(Tail(ps), cons)

\* pair->addCcdContact(0.0, t, ...)
TestAddCcdContact ==
    /\ pc \in {"test", "tested"}
    /\ TotalContacts(ccdPairs, contacts) < MaxTestContacts
    /\ \E p \in Pairs, t \in TestTimes :
          /\ pairType[p] = CONTINUOUS
          /\ contacts' = [contacts EXCEPT ![p] = Append(@, Contact(t))]
    /\ hist' = NoHist
    /\ pc' = "test"
    /\ UNCHANGED <<m_maxIterations, m_epsilonFactor, pairType, state, lastState,
                   iterations, toi, localToi, epsilon, ccdTime, found, warned,
                   returned, bodyCount, calls, exit, everContact>>
    /\ UNCHANGED meshVars
    /\ UNCHANGED unitVars

\* the call of the filter with the test's epsilon and the test's toi
TestFilter ==
    /\ pc \in {"test", "tested"}
    /\ \E eps \in TestEpsilons :
          LET r == filterContacts(ccdPairs, contacts, eps, localToi)
          IN  /\ epsilon' = eps
              /\ contacts' = r.contacts
              /\ localToi' = r.currentToi
              /\ found' = r.ret
    /\ hist' = [contacts |-> contacts, epsilon |-> epsilon',
                localToi |-> localToi, toi |-> toi]
    /\ pc' = "tested"
    /\ UNCHANGED <<m_maxIterations, m_epsilonFactor, pairType, state, lastState,
                   iterations, toi, ccdTime, warned, returned, bodyCount, calls,
                   exit, everContact>>
    /\ UNCHANGED meshVars
    /\ UNCHANGED unitVars

\* clearContacts(ccdPairs) between two cases of a test
TestClear ==
    /\ pc \in {"test", "tested"}
    /\ TotalContacts(ccdPairs, contacts) > 0
    /\ contacts' = clearContacts(ccdPairs, contacts)
    /\ hist' = NoHist
    /\ pc' = "test"
    /\ UNCHANGED <<m_maxIterations, m_epsilonFactor, pairType, state, lastState,
                   iterations, toi, localToi, epsilon, ccdTime, found, warned,
                   returned, bodyCount, calls, exit, everContact>>
    /\ UNCHANGED meshVars
    /\ UNCHANGED unitVars

FilterNext ==
    \/ TestAddCcdContact
    \/ TestFilter
    \/ TestClear

FilterSpec == FilterInit /\ [][FilterNext]_vars

\* --------------------------- TriangleMeshTriangleMeshContact: the meshes
\* the largest number of triangles of the first mesh
MaxTriangles == 2

\* the triangle ids of the two meshes
TrianglesA == 0 .. (MaxTriangles - 1)

TrianglesB == 0 .. 1

\* a triangle of a MeshShape: getTrianglePositions and getNormal
RegularTriangle ==
    [vertices |-> <<Vec(0, 0, 0), Vec(1, 0, 0), Vec(0, 1, 0)>>,
     normal |-> Vec(0, 0, 1)]

\* a triangle without area: its normal is zero
DegenerateTriangle == [vertices |-> <<VZero, VZero, VZero>>, normal |-> VZero]

\* the ids of S in ascending order
RECURSIVE Ascending(_)
Ascending(S) ==
    IF S = {} THEN <<>>
    ELSE LET m == CHOOSE x \in S : \A y \in S : x <= y
         IN  <<m>> \o Ascending(S \ {m})

SubLists(ids) == {Ascending(S) : S \in SUBSET ids}

\* AabbTree::spatialJoin and AabbTreeNode::getIntersections: the pairs of
\* overlapping leaves, each with the triangles of one leaf that reach the box
\* of the other; a triangle lies in one leaf, so a pair of triangles comes up
\* under one pair of leaves at most
JoinLists(idsA, idsB) ==
    {<<>>}
    \cup {<<[a |-> la, b |-> lb]>> : la \in SubLists(idsA), lb \in SubLists(idsB)}
    \cup {<<[a |-> la, b |-> <<Head(lb)>>], [a |-> la, b |-> Tail(lb)]>> :
             la \in SubLists(idsA),
             lb \in {l \in SubLists(idsB) : Len(l) >= 2}}

\* Math::calculateContactTriangleTriangle: whether the triangles penetrate
\* and, if so, depth, normal and the penetration point on each triangle
TriangleTriangleOutcomes ==
    {[found |-> FALSE, depth |-> Zero, normal |-> VZero,
      penetrationPointA |-> VZero, penetrationPointB |-> VZero]}
    \cup {[found |-> TRUE, depth |-> d, normal |-> Vec(0, 0, 1),
           penetrationPointA |-> Vec(1, 0, 0), penetrationPointB |-> Vec(0, 1, 0)] :
             d \in {Dbl(-1, 1), Dbl(2, 1)}}

\* Math::barycentricCoordinates(pt, tv0, tv1, tv2, tn, &coordinates)
barycentricCoordinates(pt, tv, tn) ==
    LET area == Dot(Cross(VSub(tv[2], tv[1]), VSub(tv[3], tv[1])), tn)
    IN  IF ~Gt(area, Zero)
        THEN [ok |-> FALSE, coordinates |-> <<NaN, NaN, NaN>>]
        ELSE LET b0 == Div(Dot(Cross(VSub(tv[2], pt), VSub(tv[3], pt)), tn), area)
                 b1 == Div(Dot(Cross(VSub(tv[3], pt), VSub(tv[1], pt)), tn), area)
             IN  [ok |-> TRUE, coordinates |-> <<b0, b1, Sub(Sub(One, b0), b1)>>]

\* DataStructures::Location of a point on a triangle mesh
Location(index, coordinate, position) ==
    [index |-> index, coordinate |-> coordinate, rigidLocalPosition |-> position]

\* Collision::Contact(type, depth, time, contact, normal, penetrationPoints)
MeshContact(type, depth, time, contact, normal, penetrationPoints) ==
    [type |-> type, depth |-> depth, time |-> time, contact |-> contact,
     normal |-> normal, penetrationPoints |-> penetrationPoints]

\* ------------------------------------------------- calculateDcdContact
\* the meshes the calculator is handed: triangles with or without area
DcdInputs ==
    [meshA : [TrianglesA -> {RegularTriangle, DegenerateTriangle}],
     meshB : [TrianglesB -> {RegularTriangle, DegenerateTriangle}],
     meshAPose : {Vec(0, 0, 1)},
     meshBPose : {Vec(0, 0, -1)},
     intersectionList : JoinLists(TrianglesA, TrianglesB)]

DcdInit ==
    /\ pc = "dcdIdle"
    /\ dcdIn \in DcdInputs
    /\ dcdAt = [n |-> 0, i |-> 0, j |-> 0]
    /\ dcdContacts = <<>>
    /\ dcdTested = <<>>
    /\ ccdIn = <<>>
    /\ ccdAt = <<>>
    /\ ccdContacts = <<>>
    /\ ccdSeen = <<>>
    /\ LoopAtRest
    /\ UnitsAtRest

\* lines 146-155: the local list and the join of the two trees
DcdCall ==
    /\ pc = "dcdIdle"
    /\ dcdContacts' = <<>>
    /\ dcdAt' = [n |-> 1, i |-> 0, j |-> 0]
    /\ pc' = "dcdNode"
    /\ UNCHANGED <<dcdIn, dcdTested>>
    /\ UNCHANGED loopVars
    /\ UNCHANGED unitVars
    /\ UNCHANGED ccdVars

\* lines 155-164 and 227: the next pair of leaves, or the return
DcdNode ==
    /\ pc = "dcdNode"
    /\ IF dcdAt.n > Len(dcdIn.intersectionList)
       THEN pc' = "dcdDone" /\ dcdAt' = dcdAt
       ELSE pc' = "dcdA" /\ dcdAt' = [dcdAt EXCEPT !.i = 1]
    /\ UNCHANGED <<dcdIn, dcdContacts, dcdTested>>
    /\ UNCHANGED loopVars
    /\ UNCHANGED unitVars
    /\ UNCHANGED ccdVars

\* the triangle lists of the current pair of leaves
triangleListA == dcdIn.intersectionList[dcdAt.n].a

triangleListB == dcdIn.intersectionList[dcdAt.n].b

\* a triangle is passed whatever its normal
SkipsTriangle_Never(normal) == FALSE

\* lines 169 and 179: if (normal.isZero()) continue;
SkipsTriangle(normal) == isZero(normal)

\* lines 166-174: the next triangle of mesh A; one with a zero normal is passed
DcdTriangleA ==
    /\ pc = "dcdA"
    /\ IF dcdAt.i > Len(triangleListA)
       THEN pc' = "dcdNode" /\ dcdAt' = [dcdAt EXCEPT !.n = @ + 1]
       ELSE IF SkipsTriangle(dcdIn.meshA[triangleListA[dcdAt.i]].normal)
            THEN pc' = "dcdA" /\ dcdAt' = [dcdAt EXCEPT !.i = @ + 1]
            ELSE pc' = "dcdB" /\ dcdAt' = [dcdAt EXCEPT !.j = 1]
    /\ UNCHANGED <<dcdIn, dcdContacts, dcdTested>>
    /\ UNCHANGED loopVars
    /\ UNCHANGED unitVars
    /\ UNCHANGED ccdVars

\* the contact with both Locations on the triangle of mesh A
DcdContact_BothOnA(i, j, r) ==
    LET first == Location(i,
                     barycentricCoordinates(r.penetrationPointA,
                         dcdIn.meshA[i].vertices, dcdIn.meshA[i].normal).coordinates,
                     InverseTimes(dcdIn.meshAPose, r.penetrationPointA))
    IN  MeshContact(DISCRETE, OverNorm(StdAbs(r.depth), One), One, VZero,
                    normalized(r.normal), <<first, first>>)

\* lines 205-222: the contact made of a successful triangle test
DcdContact(i, j, r) ==
    LET first == Location(i,
                     barycentricCoordinates(r.penetrationPointA,
                         dcdIn.meshA[i].vertices, dcdIn.meshA[i].normal).coordinates,
                     InverseTimes(dcdIn.meshAPose, r.penetrationPointA))
        second == Location(j,
                     barycentricCoordinates(r.penetrationPointB,
                         dcdIn.meshB[j].vertices, dcdIn.meshB[j].normal).coordinates,
                     InverseTimes(dcdIn.meshBPose, r.penetrationPointB))
    IN  MeshContact(DISCRETE, OverNorm(StdAbs(r.depth), One), One, VZero,
                    normalized(r.normal), <<first, second>>)

\* lines 176-224: the next triangle of mesh B; one with a zero normal is
\* passed, any other is tested against the current triangle of mesh A
DcdTriangleB ==
    /\ pc = "dcdB"
    /\ IF dcdAt.j > Len(triangleListB)
       THEN /\ pc' = "dcdA"
            /\ dcdAt' = [dcdAt EXCEPT !.i = @ + 1]
            /\ UNCHANGED <<dcdContacts, dcdTested>>
       ELSE LET i == triangleListA[dcdAt.i]
                j == triangleListB[dcdAt.j]
            IN  /\ pc' = "dcdB"
                /\ dcdAt' = [dcdAt EXCEPT !.j = @ + 1]
                /\ IF SkipsTriangle(dcdIn.meshB[j].normal)
                   THEN UNCHANGED <<dcdContacts, dcdTested>>
                   ELSE \E r \in TriangleTriangleOutcomes :
                          /\ dcdTested' = Append(dcdTested,
                                 [i |-> i, j |-> j, found |-> r.found])
                          /\ dcdContacts' =
                                 IF r.found
                                 THEN Append(dcdContacts, DcdContact(i, j, r))
                                 ELSE dcdContacts
    /\ UNCHANGED dcdIn
    /\ UNCHANGED loopVars
    /\ UNCHANGED unitVars
    /\ UNCHANGED ccdVars

DcdNext ==
    \/ DcdCall
    \/ DcdNode
    \/ DcdTriangleA
    \/ DcdTriangleB

DcdSpec == DcdInit /\ [][DcdNext]_vars

\* ------------------------------------------------- calculateCcdContact
\* the vertex ids of a shape and the vertex-id triples of its triangles
VertexIds == 0 .. 5

Triples == {<<0, 1, 2>>, <<3, 4, 5>>}

\* the vertex positions of a shape from the list of them
Positions(ps) == [v \in VertexIds |-> ps[v + 1]]

\* two triangles one above the other
PositionsNear ==
    Positions(<<Vec(0, 0, 0), Vec(1, 0, 0), Vec(0, 1, 0),
                Vec(0, 0, 1), Vec(1, 0, 1), Vec(0, 1, 1)>>)

\* the same with the first triangle pinched to a segment
PositionsPinched ==
    Positions(<<Vec(0, 0, 0), Vec(0, 0, 0), Vec(0, 1, 0),
                Vec(0, 0, 1), Vec(1, 0, 1), Vec(0, 1, 1)>>)

\* the second triangle moved through the plane of the first
PositionsCrossed ==
    Positions(<<Vec(0, 0, 0), Vec(1, 0, 0), Vec(0, 1, 0),
                Vec(0, 0, -1), Vec(1, 0, -1), Vec(0, 1, -1)>>)

\* the second triangle far from the first
PositionsFar ==
    Positions(<<Vec(0, 0, 0), Vec(1, 0, 0), Vec(0, 1, 0),
                Vec(9, 9, 9), Vec(10, 9, 9), Vec(9, 10, 9)>>)

\* the vertex positions of the first shape at both times
PositionsOfShape1 ==
    Positions(<<Vec(0, 0, 2), Vec(2, 0, 2), Vec(0, 2, 2),
                Vec(0, 0, 3), Vec(2, 0, 3), Vec(0, 2, 3)>>)

\* the vertex positions of the second shape at t0 and at t1
MotionsOfShape2 ==
    {<<PositionsNear, PositionsCrossed>>,
     <<PositionsPinched, PositionsCrossed>>,
     <<PositionsFar, PositionsFar>>}

\* Math::MeshShape, as far as the calculator reads it
MeshShape(triangles, vertices) == [triangles |-> triangles, vertices |-> vertices]

getNumTriangles(shape) == Len(shape.triangles)

\* getTriangle(id).verticesId
getTriangle(shape, id) == shape.triangles[id + 1]

getVertexPosition(shape, id) == shape.vertices[id]

\* the triangles of a first shape of n triangles at t0
RECURSIVE TrianglesOfShape1(_)
TrianglesOfShape1(n) ==
    IF n = 0 THEN <<>>
    ELSE Append(TrianglesOfShape1(n - 1),
                IF n % 2 = 1 THEN <<0, 1, 2>> ELSE <<3, 4, 5>>)

\* the shapes and poses the calculator is handed
CcdInputs ==
    {[shape1AtTime0 |-> MeshShape(a0, PositionsOfShape1),
      shape1AtTime1 |-> MeshShape(a1, PositionsOfShape1),
      shape2AtTime0 |-> MeshShape(b0, m[1]),
      shape2AtTime1 |-> MeshShape(b1, m[2]),
      pose1AtTime1 |-> Vec(0, 0, 2),
      pose2AtTime1 |-> Vec(0, 0, -1)] :
        a0 \in {TrianglesOfShape1(n) : n \in 0 .. MaxTriangles},
        a1 \in SeqsUpTo(Triples, MaxTriangles),
        b0 \in SeqsUpTo(Triples, 1),
        b1 \in SeqsUpTo(Triples, 1),
        m \in MotionsOfShape2}

\* lines 312-316 and 338-339: the locals of a triangle pair
PairLocals(triangle1Id, triangleId) ==
    [triangle1Id |-> triangle1Id, triangleId |-> triangleId, test |-> 0,
     earliestTimeOfImpact |-> DBL_MAX,
     triangle1Alpha |-> Dbl(-1, 1), triangle1Beta |-> Dbl(-1, 1),
     triangle2Alpha |-> Dbl(-1, 1), triangle2Beta |-> Dbl(-1, 1),
     segmentSegmentCcdFound |-> FALSE, t1VertexThroughT2 |-> FALSE]

\* the roots a swept test can report
RootTimes == {Dbl(1, 2), One}

\* nothing has been reported for the triangle pair
NothingSeen ==
    [degenerate1 |-> FALSE, degenerate2 |-> FALSE, overlap |-> FALSE,
     consulted |-> 0, first |-> [t \in RootTimes |-> <<>>],
     again |-> [t \in RootTimes |-> FALSE], emitted |-> FALSE]

CcdInit ==
    /\ pc = "ccdIdle"
    /\ ccdIn \in CcdInputs
    /\ ccdAt = PairLocals(0, 0)
    /\ ccdContacts = <<>>
    /\ ccdSeen = NothingSeen
    /\ dcdIn = <<>>
    /\ dcdAt = <<>>
    /\ dcdContacts = <<>>
    /\ dcdTested = <<>>
    /\ LoopAtRest
    /\ UnitsAtRest

\* lines 242-245: the assertions on the numbers of triangles
CountsAgree ==
    /\ getNumTriangles(ccdIn.shape1AtTime0) > 0
    /\ getNumTriangles(ccdIn.shape1AtTime0) = getNumTriangles(ccdIn.shape1AtTime1)
    /\ getNumTriangles(ccdIn.shape2AtTime0) > 0
    /\ getNumTriangles(ccdIn.shape2AtTime0) = getNumTriangles(ccdIn.shape2AtTime1)

\* lines 240-247: the local list, the assertions and the start of the loop;
\* a failed SURGSIM_ASSERT throws, and the list is gone with the frame
CcdCall ==
    /\ pc = "ccdIdle"
    /\ ccdContacts' = <<>>
    /\ ccdAt' = PairLocals(0, 0)
    /\ pc' = IF CountsAgree THEN "ccdTriangle1" ELSE "ccdThrown"
    /\ UNCHANGED <<ccdIn, ccdSeen>>
    /\ UNCHANGED loopVars
    /\ UNCHANGED unitVars
    /\ UNCHANGED dcdVars

\* lines 247-257 and 652: the next triangle of shape 1 with the assertion on
\* its vertex ids, or the return
CcdTriangle1 ==
    /\ pc = "ccdTriangle1"
    /\ IF ccdAt.triangle1Id >= getNumTriangles(ccdIn.shape1AtTime0)
       THEN pc' = "ccdDone" /\ UNCHANGED <<ccdAt, ccdContacts>>
       ELSE IF getTriangle(ccdIn.shape1AtTime0, ccdAt.triangle1Id)
                 = getTriangle(ccdIn.shape1AtTime1, ccdAt.triangle1Id)
            THEN /\ pc' = "ccdTriangle2"
                 /\ ccdAt' = PairLocals(ccdAt.triangle1Id, 0)
                 /\ UNCHANGED ccdContacts
            ELSE /\ pc' = "ccdThrown"
                 /\ ccdContacts' = <<>>
                 /\ UNCHANGED ccdAt
    /\ ccdSeen' = NothingSeen
    /\ UNCHANGED ccdIn
    /\ UNCHANGED loopVars
    /\ UNCHANGED unitVars
    /\ UNCHANGED dcdVars

\* lines 259-267: the positions at t0 and t1 of vertex k of the current
\* triangle of shape 1, as the code reads them
t1v(k) ==
    [first |-> getVertexPosition(ccdIn.shape2AtTime0,
                   getTriangle(ccdIn.shape1AtTime0, ccdAt.triangle1Id)[k + 1]),
     second |-> getVertexPosition(ccdIn.shape2AtTime1,
                   getTriangle(ccdIn.shape1AtTime1, ccdAt.triangle1Id)[k + 1])]

\* lines 289-297: the same for the current triangle of shape 2
t2v(k) ==
    [first |-> getVertexPosition(ccdIn.shape2AtTime0,
                   getTriangle(ccdIn.shape2AtTime0, ccdAt.triangleId)[k + 1]),
     second |-> getVertexPosition(ccdIn.shape2AtTime1,
                   getTriangle(ccdIn.shape2AtTime1, ccdAt.triangleId)[k + 1])]

\* Math::Aabbd extended by the points pts
Aabb(pts) ==
    LET lo(x) == CHOOSE m \in {q[x] : q \in pts} : \A q \in pts : Le(m, q[x])
        hi(x) == CHOOSE m \in {q[x] : q \in pts} : \A q \in pts : Le(q[x], m)
    IN  [min |-> <<lo(1), lo(2), lo(3)>>, max |-> <<hi(1), hi(2), hi(3)>>]

\* lines 269-275 and 299-305: the box of the six positions of a triangle
SweptAabb(v) ==
    Aabb({v[k].first : k \in 1 .. 3} \cup {v[k].second : k \in 1 .. 3})

\* Math::doAabbIntersect
doAabbIntersect(a, b) ==
    \A x \in 1 .. 3 : Le(a.min[x], b.max[x]) /\ Le(b.min[x], a.max[x])

\* Math::Geometry::DistanceEpsilon: a small positive double, here one that
\* the integers of the checker can square
DistanceEpsilon == Dbl(1, 1000)

\* lines 318-319 and 325-326: the norm of the normal at t0 is under
\* DistanceEpsilon (both sides squared)
NullNormal(v) ==
    LET n == Cross(VSub(v[2].first, v[1].first), VSub(v[3].first, v[1].first))
    IN  Lt(Dot(n, n), Mul(DistanceEpsilon, DistanceEpsilon))

\* what the coordinate vector holds after a failed barycentricCoordinates:
\* the vector is not initialized before the call (lines 346-347)
BaryOnFailure == {<<NaN, NaN, NaN>>, <<One, Zero, Zero>>}

\* Math::distanceTriangleTriangle(...) <= 0.0 at t0: triangles whose boxes at
\* t0 are apart do not touch
TouchingAtTime0(v1, v2) ==
    IF doAabbIntersect(Aabb({v1[k].first : k \in 1 .. 3}),
                       Aabb({v2[k].first : k \in 1 .. 3}))
    THEN BOOLEAN
    ELSE {FALSE}

\* lines 348 and 355: the coordinates of pt in the triangle at t0
BaryAtTime0(pt, v) ==
    LET tv == <<v[1].first, v[2].first, v[3].first>>
        r == barycentricCoordinates(pt, tv,
                 Cross(VSub(tv[2], tv[1]), VSub(tv[3], tv[1])))
    IN  IF r.ok THEN {r.coordinates} ELSE BaryOnFailure

\* lines 277-368: the next triangle of shape 2: the assertion on its vertex
\* ids, the test of the boxes, the warnings for null normals and the test for
\* an overlap at t0
CcdTriangle2 ==
    /\ pc = "ccdTriangle2"
    /\ IF ccdAt.triangleId >= getNumTriangles(ccdIn.shape2AtTime0)
       THEN /\ pc' = "ccdTriangle1"
            /\ ccdAt' = [ccdAt EXCEPT !.triangle1Id = @ + 1]
            /\ ccdSeen' = NothingSeen
            /\ UNCHANGED ccdContacts
       ELSE IF getTriangle(ccdIn.shape2AtTime0, ccdAt.triangleId)
                 # getTriangle(ccdIn.shape2AtTime1, ccdAt.triangleId)
       THEN /\ pc' = "ccdThrown"
            /\ ccdContacts' = <<>>
            /\ ccdSeen' = NothingSeen
            /\ UNCHANGED ccdAt
       ELSE LET v1 == <<t1v(0), t1v(1), t1v(2)>>
                v2 == <<t2v(0), t2v(1), t2v(2)>>
                locals == PairLocals(ccdAt.triangle1Id, ccdAt.triangleId)
                seen == [NothingSeen EXCEPT !.degenerate1 = NullNormal(v1),
                                            !.degenerate2 = NullNormal(v2)]
            IN  /\ UNCHANGED ccdContacts
                /\ IF ~doAabbIntersect(SweptAabb(v1), SweptAabb(v2))
                   THEN /\ pc' = "ccdNext"
                        /\ ccdAt' = locals
                        /\ ccdSeen' = NothingSeen
                   ELSE \E touching \in TouchingAtTime0(v1, v2) :
                          IF touching
                          THEN \E c1 \in BaryAtTime0(v1[2].first, v1),
                                  c2 \in BaryAtTime0(v2[2].first, v2) :
                                 /\ ccdAt' = [locals EXCEPT
                                        !.segmentSegmentCcdFound = FALSE,
                                        !.earliestTimeOfImpact = Zero,
                                        !.triangle1Alpha = c1[2],
                                        !.triangle1Beta = c1[3],
                                        !.triangle2Alpha = c2[2],
                                        !.triangle2Beta = c2[3]]
                                 /\ ccdSeen' = [seen EXCEPT !.overlap = TRUE]
                                 /\ pc' = "ccdEmit"
                          ELSE /\ ccdAt' = [locals EXCEPT !.test = 1]
                               /\ ccdSeen' = seen
                               /\ pc' = "ccdSwept"
    /\ UNCHANGED ccdIn
    /\ UNCHANGED loopVars
    /\ UNCHANGED unitVars
    /\ UNCHANGED dcdVars

\* line 277: triangleId++
CcdNext ==
    /\ pc = "ccdNext"
    /\ ccdAt' = [ccdAt EXCEPT !.triangleId = @ + 1]
    /\ pc' = "ccdTriangle2"
    /\ UNCHANGED <<ccdIn, ccdContacts, ccdSeen>>
    /\ UNCHANGED loopVars
    /\ UNCHANGED unitVars
    /\ UNCHANGED dcdVars

\* the swept tests in the order of lines 376-577: 1-9 are the segment tests
\* (edge of triangle 1, edge of triangle 2), 10-12 the vertices of triangle 1
\* against triangle 2, 13-15 the vertices of triangle 2 against triangle 1
SweptTests == 1 .. 15

\* the tests that find a root in the motions considered: three segment tests,
\* the first vertex of triangle 1 and the first and last vertex of triangle 2
RootTests == {1, 5, 9, 10, 13, 15}

\* the factors a segment test and the coordinates a point test report
SegmentFactors == {<<Dbl(1, 2), Dbl(1, 2)>>}

TriangleFactors == {<<Dbl(1, 4), Dbl(1, 2)>>}

\* Math::calculateCcdContactSegmentSegment, calculateCcdContactPointTriangle:
\* whether there is a root in [0, 1], its time and the two parameters
SweptOutcomes(k) ==
    {[found |-> FALSE, timeOfImpact |-> Zero, a |-> Zero, b |-> Zero]}
    \cup {[found |-> TRUE, timeOfImpact |-> t, a |-> f[1], b |-> f[2]] :
             t \in IF k \in RootTests THEN RootTimes ELSE {},
             f \in IF k <= 9 THEN SegmentFactors ELSE TriangleFactors}

\* the coordinates of the point at factor f on edge e (0: v0v1, 1: v1v2,
\* 2: v2v0), as in lines 382-383, 421-422 and 460-461
EdgeCoordinates(e, f) ==
    CASE e = 0 -> <<f, Zero>>
      [] e = 1 -> <<Sub(One, f), f>>
      [] e = 2 -> <<Zero, Sub(One, f)>>

\* the coordinates of vertex v, as in lines 502-503, 516-517 and 530-531
VertexCoordinates(v) ==
    CASE v = 0 -> <<Zero, Zero>>
      [] v = 1 -> <<One, Zero>>
      [] v = 2 -> <<Zero, One>>

\* the assignments of a test that is kept (lines 380-385 and the like)
Keep(locals, k, r) ==
    LET c1 == IF k <= 9 THEN EdgeCoordinates((k - 1) \div 3, r.a)
              ELSE IF k <= 12 THEN VertexCoordinates(k - 10)
              ELSE <<r.a, r.b>>
        c2 == IF k <= 9 THEN EdgeCoordinates((k - 1) % 3, r.b)
              ELSE IF k <= 12 THEN <<r.a, r.b>>
              ELSE VertexCoordinates(k - 13)
    IN  [locals EXCEPT
            !.segmentSegmentCcdFound = (k <= 9),
            !.t1VertexThroughT2 = IF k <= 9 THEN @ ELSE (k <= 12),
            !.earliestTimeOfImpact = r.timeOfImpact,
            !.triangle1Alpha = c1[1], !.triangle1Beta = c1[2],
            !.triangle2Alpha = c2[1], !.triangle2Beta = c2[2]]

\* a root replaces the earliest one when it is at most as late
Earlier_OrEqual(timeOfImpact, earliest) == Le(timeOfImpact, earliest)

\* line 378 and the like: timeOfImpact < earliestTimeOfImpact
Earlier(timeOfImpact, earliest) == Lt(timeOfImpact, earliest)

\* lines 376-577: one swept test
CcdSweptTest ==
    /\ pc = "ccdSwept"
    /\ LET k == ccdAt.test
       IN  \E r \in SweptOutcomes(k) :
             LET kept == IF r.found /\ Earlier(r.timeOfImpact, ccdAt.earliestTimeOfImpact)
                         THEN Keep(ccdAt, k, r)
                         ELSE ccdAt
             IN  /\ ccdAt' = [kept EXCEPT !.test = k + 1]
                 /\ ccdSeen' = [ccdSeen EXCEPT
                        !.consulted = @ + 1,
                        !.first = IF r.found /\ @[r.timeOfImpact] = <<>>
                                  THEN [@ EXCEPT ![r.timeOfImpact] = <<k, r>>]
                                  ELSE @,
                        !.again = IF r.found /\ ccdSeen.first[r.timeOfImpact] # <<>>
                                  THEN [@ EXCEPT ![r.timeOfImpact] = TRUE]
                                  ELSE @]
                 /\ pc' = IF k = 15 THEN "ccdEmit" ELSE "ccdSwept"
    /\ UNCHANGED <<ccdIn, ccdContacts>>
    /\ UNCHANGED loopVars
    /\ UNCHANGED unitVars
    /\ UNCHANGED dcdVars

\* lines 586-597: the condition of each of the two assertions
InTriangle(alpha, beta) ==
    /\ Ge(alpha, Neg(DistanceEpsilon))
    /\ Ge(beta, Neg(DistanceEpsilon))
    /\ Le(Add(alpha, beta), Add(One, Add(DistanceEpsilon, DistanceEpsilon)))

\* lines 599-646: the contact of the current triangle pair
CcdContact ==
    LET t1T0T1 == VSub(t1v(1).second, t1v(0).second)
        t1T0T2 == VSub(t1v(2).second, t1v(0).second)
        T1 == VAdd(VAdd(t1v(0).second, VScale(ccdAt.triangle2Alpha, t1T0T1)),
                   VScale(ccdAt.triangle2Beta, t1T0T2))
        t2T0T1 == VSub(t2v(1).second, t2v(0).second)
        t2T0T2 == VSub(t2v(2).second, t2v(0).second)
        T2 == VAdd(VAdd(t2v(0).second, VScale(ccdAt.triangle2Alpha, t2T0T1)),
                   VScale(ccdAt.triangle2Beta, t2T0T2))
        normal == IF ccdAt.segmentSegmentCcdFound
                  THEN normalized(VSub(T1, T2))
                  ELSE IF ccdAt.t1VertexThroughT2
                       THEN normalized(Cross(t2T0T1, t2T0T2))
                       ELSE normalized(VNeg(Cross(t1T0T1, t1T0T2)))
        penentrationDepthAtT1 == DotUnit(VSub(T2, T1), normal)
        triangle1BaryCoord ==
            <<Sub(Sub(One, ccdAt.triangle1Alpha), ccdAt.triangle1Beta),
              ccdAt.triangle1Alpha, ccdAt.triangle1Beta>>
        locationTriangle1 ==
            Location(ccdAt.triangleId, triangle1BaryCoord,
                     InverseTimes(ccdIn.pose2AtTime1, T1))
        triangle2BaryCoord ==
            <<Sub(Sub(One, ccdAt.triangle2Alpha), ccdAt.triangle2Beta),
              ccdAt.triangle2Alpha, ccdAt.triangle2Beta>>
        locationTriangle2 ==
            Location(ccdAt.triangleId, triangle2BaryCoord,
                     InverseTimes(ccdIn.pose2AtTime1, T1))
    IN  MeshContact(CONTINUOUS, penentrationDepthAtT1, ccdAt.earliestTimeOfImpact,
                    VScale(Dbl(1, 2), VAdd(T1, T2)), normal,
                    <<locationTriangle1, locationTriangle2>>)

\* lines 581-648: no root, a failed assertion on the coordinates, or the
\* contact
CcdEmit ==
    /\ pc = "ccdEmit"
    /\ IF ccdAt.earliestTimeOfImpact = DBL_MAX
       THEN pc' = "ccdNext" /\ UNCHANGED <<ccdContacts, ccdSeen>>
       ELSE IF ~(/\ InTriangle(ccdAt.triangle1Alpha, ccdAt.triangle1Beta)
                 /\ InTriangle(ccdAt.triangle2Alpha, ccdAt.triangle2Beta))
       THEN pc' = "ccdThrown" /\ ccdContacts' = <<>> /\ UNCHANGED ccdSeen
       ELSE /\ pc' = "ccdNext"
            /\ ccdContacts' = Append(ccdContacts, CcdContact)
            /\ ccdSeen' = [ccdSeen EXCEPT !.emitted = TRUE]
    /\ UNCHANGED <<ccdIn, ccdAt>>
    /\ UNCHANGED loopVars
    /\ UNCHANGED unitVars
    /\ UNCHANGED dcdVars

CcdNextStep ==
    \/ CcdCall
    \/ CcdTriangle1
    \/ CcdTriangle2
    \/ CcdNext
    \/ CcdSweptTest
    \/ CcdEmit

CcdSpec == CcdInit /\ [][CcdNextStep]_vars

\* ------------------------------------------------- Math::resize (Matrix.h)
\* the largest number of rows and of columns of a matrix
MaxDim == 2

Dims == 0 .. MaxDim

\* the values of a coefficient
Coefficients == {0, 1}

\* a null Matrix*
NullMatrix == [rows |-> -1, cols |-> -1, coeff |-> <<>>]

\* the dynamic matrices of rows x cols coefficients
MatricesOf(rows, cols) ==
    {[rows |-> rows, cols |-> cols, coeff |-> c] :
        c \in [(1 .. rows) \X (1 .. cols) -> Coefficients]}

Matrices == UNION {MatricesOf(r, c) : r \in Dims, c \in Dims}

\* A->setZero()
setZero(A) == [A EXCEPT !.coeff = [x \in DOMAIN A.coeff |-> 0]]

\* lines 220-225: the test that decides whether A->resize is called
NeedsResize(A, numRow, numCol) == A.rows # numRow /\ A.cols # numCol

\* lines 216-230: resize(A, numRow, numCol, zeroOut): the matrices *A can be
\* afterwards (A->resize leaves the coefficients of a new size unset)
resize(A, numRow, numCol, zeroOut) ==
    IF A = NullMatrix THEN {A}
    ELSE LET resized == IF NeedsResize(A, numRow, numCol)
                        THEN MatricesOf(numRow, numCol)
                        ELSE {A}
         IN  IF zeroOut THEN {setZero(B) : B \in resized} ELSE resized

ResizeInit ==
    /\ pc = "matrix"
    /\ matrixA \in Matrices \cup {NullMatrix}
    /\ resizeCall = <<>>
    /\ OutputAtRest
    /\ LocalizationAtRest
    /\ DeformableAtRest
    /\ MeshAtRest
    /\ LoopAtRest

\* a call of Math::resize on the matrix
Resize ==
    /\ pc \in {"matrix", "resized"}
    /\ pc' = "resized"
    /\ \E numRow \in Dims, numCol \in Dims, zeroOut \in BOOLEAN :
          /\ matrixA' \in resize(matrixA, numRow, numCol, zeroOut)
          /\ resizeCall' = [A |-> matrixA, numRow |-> numRow,
                            numCol |-> numCol, zeroOut |-> zeroOut]
    /\ UNCHANGED <<outputVars, localizationVars, deformableVars>>
    /\ UNCHANGED meshVars
    /\ UNCHANGED loopVars

ResizeSpec == ResizeInit /\ [][Resize]_vars

\* ------------------------------------------- Input::OutputComponent
\* the devices an OutputComponent is connected to and disconnected from
Devices == {"device1", "device2"}

\* a DataStructures::DataGroup, by its content
DataGroup(v) == [value |-> v]

\* the default-constructed DataGroup
EmptyDataGroup == DataGroup(0)

DataGroups == {DataGroup(1), DataGroup(2), DataGroup(3)}

\* lines 32-34: OutputProducer() : haveData(false)
OutputProducer == [haveData |-> FALSE, m_lastOutput |-> EmptyDataGroup]

\* lines 58-62: OutputProducer::setData
ProducerSetData(producer, dataGroup) ==
    [haveData |-> TRUE, m_lastOutput |-> dataGroup]

\* nothing has been called on the component yet
NoOutputCall == [op |-> "none", lastDeviceCall |-> "none", threw |-> FALSE,
                 dataGroup |-> EmptyDataGroup, before |-> OutputProducer]

\* lines 73-79: the constructor
OutputInit ==
    /\ pc = "output"
    /\ m_deviceConnected = FALSE
    /\ m_output = OutputProducer
    /\ deviceProducer = [d \in Devices |-> FALSE]
    /\ outputLog = NoOutputCall
    /\ ResizeAtRest
    /\ LocalizationAtRest
    /\ DeformableAtRest
    /\ MeshAtRest
    /\ LoopAtRest

\* lines 90-94: setData; a failed SURGSIM_ASSERT throws before m_output is
\* touched
SetData ==
    /\ pc = "output"
    /\ \E dataGroup \in DataGroups :
          /\ IF m_deviceConnected
             THEN m_output' = ProducerSetData(m_output, dataGroup)
             ELSE m_output' = m_output
          /\ outputLog' = [outputLog EXCEPT !.op = "setData",
                                            !.threw = ~m_deviceConnected,
                                            !.dataGroup = dataGroup,
                                            !.before = m_output]
    /\ UNCHANGED <<pc, m_deviceConnected, deviceProducer>>
    /\ UNCHANGED <<resizeVars, localizationVars, deformableVars>>
    /\ UNCHANGED meshVars
    /\ UNCHANGED loopVars

\* lines 111-115: connectDevice
ConnectDevice ==
    /\ pc = "output"
    /\ \E device \in Devices :
          deviceProducer' = [deviceProducer EXCEPT ![device] = TRUE]
    /\ m_deviceConnected' = TRUE
    /\ outputLog' = [outputLog EXCEPT !.op = "connectDevice",
                                      !.lastDeviceCall = "connectDevice",
                                      !.threw = FALSE]
    /\ UNCHANGED <<pc, m_output>>
    /\ UNCHANGED <<resizeVars, localizationVars, deformableVars>>
    /\ UNCHANGED meshVars
    /\ UNCHANGED loopVars

\* disconnectDevice that removes the producer and leaves m_deviceConnected
DisconnectDevice_KeepsFlag ==
    /\ pc = "output"
    /\ \E device \in Devices :
          deviceProducer' = [deviceProducer EXCEPT ![device] = FALSE]
    /\ outputLog' = [outputLog EXCEPT !.op = "disconnectDevice",
                                      !.lastDeviceCall = "disconnectDevice",
                                      !.threw = FALSE]
    /\ UNCHANGED <<pc, m_output, m_deviceConnected>>
    /\ UNCHANGED <<resizeVars, localizationVars, deformableVars>>
    /\ UNCHANGED meshVars
    /\ UNCHANGED loopVars

\* lines 117-121: disconnectDevice
DisconnectDevice ==
    /\ pc = "output"
    /\ \E device \in Devices :
          deviceProducer' = [deviceProducer EXCEPT ![device] = FALSE]
    /\ m_deviceConnected' = FALSE
    /\ outputLog' = [outputLog EXCEPT !.op = "disconnectDevice",
                                      !.lastDeviceCall = "disconnectDevice",
                                      !.threw = FALSE]
    /\ UNCHANGED <<pc, m_output>>
    /\ UNCHANGED <<resizeVars, localizationVars, deformableVars>>
    /\ UNCHANGED meshVars
    /\ UNCHANGED loopVars

OutputNext ==
    \/ SetData
    \/ ConnectDevice
    \/ DisconnectDevice

OutputSpec == OutputInit /\ [][OutputNext]_vars

\* ------------------------- Fem1D / Fem3D RepresentationLocalization
\* the nodes of the element the localization lies on
ElementNodes == 0 .. 1

\* the positions a node can have in a state
NodePositions == {Vec(0, 0, 0), Vec(4, 0, 0), Vec(0, 8, 4)}

\* the natural coordinates of the localization in its element
NaturalCoordinates == {<<One, Zero>>, <<Dbl(1, 2), Dbl(1, 2)>>, <<Dbl(1, 4), Dbl(3, 4)>>}

\* the times doCalculatePosition is called with
CalculationTimes == {Zero, Dbl(1, 4), Dbl(1, 2), One}

\* an FEM representation by its two states; getRepresentation() can be null
FemRepresentations ==
    {[null |-> FALSE, previous |-> p, current |-> c] :
        p \in [ElementNodes -> NodePositions], c \in [ElementNodes -> NodePositions]}

NullRepresentation ==
    [null |-> TRUE, previous |-> [n \in ElementNodes |-> VZero],
     current |-> [n \in ElementNodes |-> VZero]]

\* FemElement::computeCartesianCoordinate(state, naturalCoordinate): the
\* combination of the positions of the element's nodes in the state
computeCartesianCoordinate(positions, coordinate) ==
    VAdd(VScale(coordinate[1], positions[0]), VScale(coordinate[2], positions[1]))

\* doCalculatePosition with the two states exchanged
Fem1DdoCalculatePosition_Exchanged(representation, position, time) ==
    LET currentPosition ==
            computeCartesianCoordinate(representation.previous, position.coordinate)
        previousPosition ==
            computeCartesianCoordinate(representation.current, position.coordinate)
    IN  IF time = Zero THEN previousPosition
        ELSE IF time = One THEN currentPosition
        ELSE VAdd(previousPosition,
                  VScale(time, VSub(currentPosition, previousPosition)))

\* Fem1DRepresentationLocalization::doCalculatePosition, lines 71-86
Fem1DdoCalculatePosition(representation, position, time) ==
    LET currentPosition ==
            computeCartesianCoordinate(representation.current, position.coordinate)
        previousPosition ==
            computeCartesianCoordinate(representation.previous, position.coordinate)
    IN  IF time = Zero THEN previousPosition
        ELSE IF time = One THEN currentPosition
        ELSE VAdd(previousPosition,
                  VScale(time, VSub(currentPosition, previousPosition)))

\* Fem3DRepresentationLocalization::doCalculatePosition, lines 243-258
Fem3DdoCalculatePosition(representation, position, time) ==
    LET currentPosition ==
            computeCartesianCoordinate(representation.current, position.coordinate)
        previousPosition ==
            computeCartesianCoordinate(representation.previous, position.coordinate)
    IN  IF time = Zero THEN previousPosition
        ELSE IF time = One THEN currentPosition
        ELSE VAdd(previousPosition,
                  VScale(time, VSub(currentPosition, previousPosition)))

NotCalculated == [kind |-> "none", time |-> Zero, threw |-> FALSE, position |-> VZero]

LocalizationInit ==
    /\ pc = "localization"
    /\ femState \in FemRepresentations \cup {NullRepresentation}
    /\ m_position \in {[index |-> 0, coordinate |-> c] : c \in NaturalCoordinates}
    /\ calculated = NotCalculated
    /\ ResizeAtRest
    /\ OutputAtRest
    /\ DeformableAtRest
    /\ MeshAtRest
    /\ LoopAtRest

\* a call of doCalculatePosition(time) on a localization of either kind; the
\* SURGSIM_ASSERT on the representation throws when it is null
CalculatePosition ==
    /\ pc = "localization"
    /\ \E kind \in {"Fem1D", "Fem3D"}, time \in CalculationTimes :
          calculated' =
              IF femState.null
              THEN [kind |-> kind, time |-> time, threw |-> TRUE, position |-> VZero]
              ELSE [kind |-> kind, time |-> time, threw |-> FALSE,
                    position |->
                        IF kind = "Fem1D"
                        THEN Fem1DdoCalculatePosition(femState, m_position, time)
                        ELSE Fem3DdoCalculatePosition(femState, m_position, time)]
    /\ UNCHANGED <<pc, femState, m_position>>
    /\ UNCHANGED <<resizeVars, outputVars, deformableVars>>
    /\ UNCHANGED meshVars
    /\ UNCHANGED loopVars

LocalizationSpec == LocalizationInit /\ [][CalculatePosition]_vars

\* -------------------------------- DeformableCollisionRepresentation
\* the positions a node of the deformable can have
DeformablePositions == {Vec(0, 0, 0), Vec(4, 0, 0)}

\* the node positions of an OdeState of two nodes
OdePositions == [1 .. 2 -> DeformablePositions]

CollisionDetectionTypes == {"NONE", "DISCRETE", "CONTINUOUS"}

\* a MeshShape or SegmentMeshShape by its type and its vertex positions
MeshShapes ==
    {[null |-> FALSE, type |-> t, vertices |-> v] :
        t \in {"SHAPE_TYPE_MESH", "SHAPE_TYPE_SEGMENTMESH"}, v \in OdePositions}

NullShape ==
    [null |-> TRUE, type |-> "SHAPE_TYPE_NONE", vertices |-> [n \in 1 .. 2 |-> VZero]]

\* updateShapeFromOdeState, lines 48-62: every vertex takes the position of
\* its node; what vertices->update() returns is left to the caller
updateShapeFromOdeState(odeState, shape) ==
    [shape EXCEPT !.vertices = [nodeId \in 1 .. 2 |-> odeState[nodeId]]]

NoUpdateCall ==
    [returned |-> FALSE, type |-> "NONE", before |-> NullShape, continuous |-> FALSE]

DeformableInit ==
    /\ pc = "deformable"
    /\ detectionType \in CollisionDetectionTypes
    /\ m_shape \in MeshShapes
    /\ m_previousShape = NullShape
    /\ odeStates \in {[expired |-> e, previous |-> p, current |-> p] :
                         e \in BOOLEAN, p \in OdePositions}
    /\ localActive = TRUE
    /\ shapeLog = NoUpdateCall
    /\ ResizeAtRest
    /\ OutputAtRest
    /\ LocalizationAtRest
    /\ MeshAtRest
    /\ LoopAtRest

\* the body of update(dt), lines 64-111, with the test of line 72 as a
\* parameter. A failed SURGSIM_ASSERT (lines 67-69) throws and changes nothing.
\* The posed shape motion set at lines 107-110 holds the two shape pointers.
UpdateShapes(writePrevious) ==
    /\ pc = "deformable"
    /\ IF odeStates.expired
       THEN /\ shapeLog' = [shapeLog EXCEPT !.returned = FALSE]
            /\ UNCHANGED <<m_shape, m_previousShape, localActive>>
       ELSE \E previousUpdated \in BOOLEAN, currentUpdated \in BOOLEAN :
              LET copied == IF m_previousShape.null THEN m_shape ELSE m_previousShape
              IN  /\ writePrevious \/ previousUpdated
                  /\ m_previousShape' =
                        IF writePrevious
                        THEN updateShapeFromOdeState(odeStates.previous, copied)
                        ELSE m_previousShape
                  /\ m_shape' = updateShapeFromOdeState(odeStates.current, m_shape)
                  /\ localActive' = (localActive /\ previousUpdated /\ currentUpdated)
                  /\ shapeLog' =
                        [returned |-> TRUE, type |-> detectionType,
                         before |-> m_previousShape,
                         continuous |->
                             shapeLog.continuous \/ detectionType = "CONTINUOUS"]
    /\ UNCHANGED <<pc, detectionType, odeStates>>
    /\ UNCHANGED <<resizeVars, outputVars, localizationVars>>
    /\ UNCHANGED meshVars
    /\ UNCHANGED loopVars

\* update(dt) writing the previous shape whatever the detection type is
DeformableUpdate_AnyType == UpdateShapes(TRUE)

\* DeformableCollisionRepresentation::update, lines 64-111
DeformableUpdate == UpdateShapes(detectionType = "CONTINUOUS")

\* Collision::Representation::setCollisionDetectionType
SetCollisionDetectionType ==
    /\ pc = "deformable"
    /\ \E type \in CollisionDetectionTypes :
          /\ type # detectionType
          /\ detectionType' = type
    /\ shapeLog' = [shapeLog EXCEPT !.returned = FALSE]
    /\ UNCHANGED <<pc, m_shape, m_previousShape, odeStates, localActive>>
    /\ UNCHANGED <<resizeVars, outputVars, localizationVars>>
    /\ UNCHANGED meshVars
    /\ UNCHANGED loopVars

\* DeformableCollisionRepresentation::setShape, lines 149-156
SetShape ==
    /\ pc = "deformable"
    /\ \E shape \in MeshShapes :
          /\ shape # m_shape
          /\ m_shape' = shape
    /\ shapeLog' = [shapeLog EXCEPT !.returned = FALSE]
    /\ UNCHANGED <<pc, detectionType, m_previousShape, odeStates, localActive>>
    /\ UNCHANGED <<resizeVars, outputVars, localizationVars>>
    /\ UNCHANGED meshVars
    /\ UNCHANGED loopVars

\* a time step of the deformable: the current state becomes the previous one
AdvanceOdeState ==
    /\ pc = "deformable"
    /\ ~odeStates.expired
    /\ \E next \in OdePositions :
          odeStates' = [expired |-> FALSE, previous |-> odeStates.current,
                        current |-> next]
    /\ shapeLog' = [shapeLog EXCEPT !.returned = FALSE]
    /\ UNCHANGED <<pc, detectionType, m_shape, m_previousShape, localActive>>
    /\ UNCHANGED <<resizeVars, outputVars, localizationVars>>
    /\ UNCHANGED meshVars
    /\ UNCHANGED loopVars

DeformableNext ==
    \/ DeformableUpdate
    \/ SetCollisionDetectionType
    \/ SetShape
    \/ AdvanceOdeState

DeformableSpec == DeformableInit /\ [][DeformableNext]_vars

\* ------------------------------------------------------------ the claims
\* the elements of a sequence
Range(q) == {q[i] : i \in 1 .. Len(q)}

\* the contact times on the pairs ps under the contact lists cons
TimesOn(ps, cons) == {c.time : c \in UNION {Range(cons[p]) : p \in Range(ps)}}

\* m is the least of the contact times on the pairs ps
IsEarliest(m, ps, cons) ==
    /\ m \in TimesOn(ps, cons)
    /\ \A t \in TimesOn(ps, cons) : Le(m, t)

\* the contacts of cs with time <= bound, in their order
NotLater(cs, bound) == SelectSeq(cs, LAMBDA c : Le(c.time, bound))

\* the computations of one full iteration, in the order of the stages
\* ADVANCE, DETECT, FILTER, RESOLVE (four computations), CLEAR
StageOrder == <<"updateCcdData", "ccdCollision", "filterContacts",
                "constraintGeneration", "buildMlcp", "solveMlcp", "pushResults",
                "clearContacts">>

\* the stages up to and including FILTER
UpToFilter == SubSeq(StageOrder, 1, 3)

InResolve == pc \in {"generate", "build", "solve", "push", "clear", "check"}

\* C1 (as claimed): when every detection pass produces a contact and the
\* accumulated time of impact stays below 1, doUpdate ends after exactly
\* m_maxIterations executions of the loop body, with the warning logged.
C1_Original ==
    (pc = "done" /\ exit # "noImpact" /\ Lt(toi, One))
        => (bodyCount = m_maxIterations /\ warned)

\* C2 (as claimed): once the accumulated time of impact is >= 1.0 no
\* interpolation pass, detection pass or resolve computation is started.
C2_Original ==
    Ge(toi, One)
        => pc \notin {"advance", "detect", "generate", "build", "solve", "push"}

\* C3: when no detection pass produces a contact on a CONTINUOUS pair, doUpdate
\* ends in its first iteration: the filter reports no impact, no constraint
\* generation, build, solve or push is run, no warning is logged, and the state
\* and the contact lists are as they were.
C3_NoContactEndsAtOnce ==
    ~everContact =>
        /\ bodyCount <= 1
        /\ ~InResolve
        /\ lastState = state
        /\ ~warned
        /\ \A p \in Range(ccdPairs) : contacts[p] = <<>>
        /\ pc = "done" =>
              /\ bodyCount = 1
              /\ exit = "noImpact"
              /\ ~found
              /\ calls = UpToFilter
              /\ returned = <<TRUE, state>>

C3_Witness ==
    /\ pc = "done"
    /\ ~everContact
    /\ ccdPairs # <<>>
    /\ calls = UpToFilter

\* C4: the computations of an iteration run in the order ADVANCE, DETECT,
\* FILTER, RESOLVE (generation, build, solve, push), CLEAR; an iteration whose
\* filter found an impact runs RESOLVE and CLEAR once each, an iteration whose
\* filter found none runs neither.
C4_StageOrder ==
    /\ \E n \in 0 .. Len(StageOrder) : calls = SubSeq(StageOrder, 1, n)
    /\ (Len(calls) >= 3 /\ ~found) => calls = UpToFilter
    /\ (pc \in {"check", "while", "body"} /\ bodyCount >= 1) => calls = StageOrder
    /\ (pc \in {"log", "done"} /\ exit \in {"toiPassed", "budget"})
          => calls = StageOrder
    /\ (pc \in {"log", "done"} /\ exit = "noImpact") => calls = UpToFilter

C4_Witness ==
    /\ pc = "done"
    /\ exit = "noImpact"
    /\ bodyCount >= 2
    /\ lastState.pushes = bodyCount - 1
    /\ calls = UpToFilter

\* C5 (as claimed): when some contact exists on the given pairs, the filter
\* returns true and reports the least contact time, for every epsilon >= 0.
C5_Original ==
    (pc = "tested" /\ TimesOn(ccdPairs, hist.contacts) # {})
        => (found /\ IsEarliest(localToi, ccdPairs, hist.contacts))

\* C6: after the filter is applied with epsilon >= 0 to pairs whose least
\* contact time is m, every pair holds exactly its former contacts with
\* time <= m + epsilon, in their former order.
C6_KeepsUpToThreshold ==
    (pc = "tested" /\ found) =>
        \E m \in TimesOn(ccdPairs, hist.contacts) :
            /\ IsEarliest(m, ccdPairs, hist.contacts)
            /\ \A p \in Range(ccdPairs) :
                  contacts[p] = NotLater(hist.contacts[p], Add(m, hist.epsilon))

C6_Witness ==
    /\ pc = "tested"
    /\ found
    /\ hist.epsilon = Dbl(11, 100)
    /\ \E p \in Range(ccdPairs) :
          /\ hist.contacts[p] =
                <<Contact(Dbl(1, 10)), Contact(Dbl(2, 10)), Contact(Dbl(3, 10))>>
          /\ contacts[p] = <<Contact(Dbl(1, 10)), Contact(Dbl(2, 10))>>

\* C7: when none of the given pairs holds a contact, the filter returns false,
\* does not write its time-of-impact output and leaves every contact list as
\* it was.
C7_NoContactNoImpact ==
    (pc = "tested" /\ TimesOn(ccdPairs, hist.contacts) = {}) =>
        /\ ~found
        /\ localToi = hist.localToi
        /\ contacts = hist.contacts

C7_Witness ==
    /\ pc = "tested"
    /\ ccdPairs # <<>>
    /\ TimesOn(ccdPairs, hist.contacts) = {}
    /\ hist.localToi # Zero
    /\ localToi = hist.localToi

\* C8 (as claimed): the accumulated time of impact starts at 0, the local time
\* of impact of an iteration is the least contact time that iteration found,
\* and the iteration after one that found an impact starts from
\* a + (1 - a) * t, a the accumulated and t the local time of that iteration.
C8_Original ==
    /\ (pc = "while" /\ bodyCount = 0) => toi = Zero
    /\ pc = "generate" => IsEarliest(localToi, ccdPairs, hist.contacts)
    /\ (pc = "advance" /\ bodyCount >= 2)
          => toi = Add(hist.toi, Mul(Sub(One, hist.toi), localToi))

\* C9 (as claimed): after a failed solve nothing is pushed and no further
\* iteration is run: the next step of doUpdate is the one that leaves it, with
\* the state as the failed solve left it.
C9_Original ==
    [][(pc = "push" /\ lastState.mlcp = "failed")
          => (pc' = "log" /\ lastState' = lastState)]_vars

\* C10: doUpdate returns the last computed state on every path, and the
\* "Maxed out iterations" warning is logged exactly when the loop ended
\* because the budget ran out.
C10_WarningIffBudget ==
    pc = "done" =>
        /\ returned = <<TRUE, lastState>>
        /\ warned <=> exit = "budget"
        /\ exit \in {"noImpact", "toiPassed", "budget"}

C10_Witness ==
    /\ pc = "done"
    /\ exit = "budget"
    /\ warned
    /\ lastState.pushes > 0
    /\ returned = <<TRUE, lastState>>

\* C11: no step of doUpdate changes the contact list of a DISCRETE pair, so the
\* list is the same at the return as at the call, whatever the number of
\* iterations
C11_DiscreteUntouched ==
    [][\A p \in Pairs : pairType[p] = DISCRETE => contacts'[p] = contacts[p]]_vars

\* doUpdate has returned after a filter and a clear that found contacts on a
\* CONTINUOUS pair, next to a DISCRETE pair that holds a contact
C11_Witness ==
    /\ pc = "done"
    /\ bodyCount >= 2
    /\ everContact
    /\ \E p \in Pairs : pairType[p] = DISCRETE /\ contacts[p] # <<>>

\* C20: in every iteration the epsilon handed to the filter is
\* 1 / ((1 - toi) * 100), and from the second iteration on it is at least the
\* epsilon of the iteration before
C20_Original ==
    pc \in {"advance", "detect", "filter"} =>
        /\ epsilon = Div(One, Mul(Sub(One, toi), Dbl(DefaultEpsilonFactor, 1)))
        /\ bodyCount >= 2 => Ge(epsilon, hist.epsilon)

\* the candidate triangle pairs of the join: every triangle of a leaf's list
\* of mesh A with every triangle of the list of mesh B of the same pair
DcdCandidates ==
    UNION {{<<e.a[x], e.b[y]>> : x \in 1 .. Len(e.a), y \in 1 .. Len(e.b)} :
              e \in Range(dcdIn.intersectionList)}

ZeroNormalA(i) == dcdIn.meshA[i].normal = VZero

ZeroNormalB(j) == dcdIn.meshB[j].normal = VZero

\* C17: the triangle test is never run on a triangle with a zero normal and no
\* contact refers to one, in either mesh; once the call is over every candidate
\* pair of two triangles with a normal has been tested
C17_ZeroNormalSkipped ==
    /\ \A t \in Range(dcdTested) : ~ZeroNormalA(t.i) /\ ~ZeroNormalB(t.j)
    /\ \A c \in Range(dcdContacts) :
          /\ ~ZeroNormalA(c.penetrationPoints[1].index)
          /\ ~ZeroNormalB(c.penetrationPoints[2].index)
    /\ pc = "dcdDone" =>
          \A cand \in DcdCandidates :
             (~ZeroNormalA(cand[1]) /\ ~ZeroNormalB(cand[2])) =>
                 \E t \in Range(dcdTested) : t.i = cand[1] /\ t.j = cand[2]

\* the call is over; a pair of leaves held, in each mesh, a triangle with a
\* zero normal ahead of a triangle with a normal, and that one was tested
C17_Witness ==
    /\ pc = "dcdDone"
    /\ dcdContacts # <<>>
    /\ \E e \in Range(dcdIn.intersectionList) :
          /\ Len(e.a) >= 2 /\ ZeroNormalA(e.a[1]) /\ ~ZeroNormalA(e.a[2])
          /\ Len(e.b) >= 2 /\ ZeroNormalB(e.b[1]) /\ ~ZeroNormalB(e.b[2])
          /\ \E t \in Range(dcdTested) : t.i = e.a[2] /\ t.j = e.b[2]

\* the successful calls of the triangle test, in the order they were made
DcdHits == SelectSeq(dcdTested, LAMBDA t : t.found)

\* C18: the contacts are, in order, one for each successful triangle test, the
\* first Location on triangle i of mesh A and the second on triangle j of mesh
\* B; no candidate pair is tested twice and none outside the join is tested;
\* with an empty join there is no contact
C18_OneContactPerHit ==
    /\ Len(dcdContacts) = Len(DcdHits)
    /\ \A k \in 1 .. Len(dcdContacts) :
          /\ k <= Len(DcdHits)
          /\ dcdContacts[k].penetrationPoints[1].index = DcdHits[k].i
          /\ dcdContacts[k].penetrationPoints[2].index = DcdHits[k].j
    /\ \A k, l \in 1 .. Len(dcdTested) :
          (dcdTested[k].i = dcdTested[l].i /\ dcdTested[k].j = dcdTested[l].j)
              => k = l
    /\ \A t \in Range(dcdTested) : <<t.i, t.j>> \in DcdCandidates
    /\ dcdIn.intersectionList = <<>> => dcdContacts = <<>>

\* the call is over with two contacts, one of them on two triangles of
\* different index, and with a triangle test that found nothing
C18_Witness ==
    /\ pc = "dcdDone"
    /\ Len(dcdContacts) >= 2
    /\ \E c \in Range(dcdContacts) :
          c.penetrationPoints[1].index # c.penetrationPoints[2].index
    /\ \E t \in Range(dcdTested) : ~t.found

\* the last element of a sequence that has one
Last(q) == q[Len(q)]

\* C12: every contact of calculateDcdContact and of calculateCcdContact has a
\* depth that is at least 0
C12_Original ==
    \A c \in Range(dcdContacts) \cup Range(ccdContacts) : NonNegative(c.depth)

\* a contact has just been appended for the current triangle pair
JustEmitted == pc = "ccdNext" /\ ccdSeen.emitted

\* C13: a triangle pair with a null normal at t0 (the warning was logged for
\* it) gets no contact and fails no assertion
C13_Original ==
    (ccdSeen.degenerate1 \/ ccdSeen.degenerate2) =>
        ~JustEmitted /\ pc # "ccdThrown"

\* the least of the times for which a root was reported
LeastReported ==
    CHOOSE t \in RootTimes :
        /\ ccdSeen.first[t] # <<>>
        /\ \A u \in RootTimes : ccdSeen.first[u] # <<>> => Le(t, u)

\* the triangle pairs the loops have been through
PairsBegun ==
    ccdAt.triangle1Id * getNumTriangles(ccdIn.shape2AtTime0) + ccdAt.triangleId

\* C14: a triangle pair gets one contact at most; its time is 0 when the
\* triangles overlap at t0, and no swept test has then been run; otherwise all
\* fifteen tests have been run, some test reported a root, the time is the
\* least root reported and the coordinates are those of the first test that
\* reported it
C14_EarliestRootFirstWins ==
    /\ pc \in {"ccdTriangle1", "ccdTriangle2", "ccdSwept", "ccdEmit"} =>
          Len(ccdContacts) <= PairsBegun
    /\ pc = "ccdNext" => Len(ccdContacts) <= PairsBegun + 1
    /\ JustEmitted =>
          LET c == Last(ccdContacts)
          IN  IF ccdSeen.overlap
              THEN c.time = Zero /\ ccdSeen.consulted = 0
              ELSE /\ ccdSeen.consulted = 15
                   /\ \E t \in RootTimes : ccdSeen.first[t] # <<>>
                   /\ c.time = LeastReported
                   /\ LET k == ccdSeen.first[LeastReported][1]
                           r == ccdSeen.first[LeastReported][2]
                           kept == Keep(PairLocals(0, 0), k, r)
                       IN  /\ c.penetrationPoints[1].coordinate[2] = kept.triangle1Alpha
                           /\ c.penetrationPoints[1].coordinate[3] = kept.triangle1Beta
                           /\ c.penetrationPoints[2].coordinate[2] = kept.triangle2Alpha
                           /\ c.penetrationPoints[2].coordinate[3] = kept.triangle2Beta
    /\ (pc = "ccdNext" /\ ~ccdSeen.overlap
            /\ \A t \in RootTimes : ccdSeen.first[t] = <<>>) => ~ccdSeen.emitted

\* a contact has been appended whose time was reported by two tests, after an
\* earlier test had reported a later root
C14_Witness ==
    /\ JustEmitted
    /\ ~ccdSeen.overlap
    /\ ccdSeen.again[LeastReported]
    /\ \E t \in RootTimes :
          /\ ccdSeen.first[t] # <<>>
          /\ Lt(LeastReported, t)
          /\ ccdSeen.first[t][1] < ccdSeen.first[LeastReported][1]

\* the point with the coordinates (alpha, beta) in triangle id of a shape
PointOf(shape, id, alpha, beta) ==
    LET v(k) == getVertexPosition(shape, getTriangle(shape, id)[k + 1])
    IN  VAdd(VAdd(v(0), VScale(alpha, VSub(v(1), v(0)))),
             VScale(beta, VSub(v(2), v(0))))

\* C15: in every contact of calculateCcdContact the first Location has the
\* index and the coordinates of the triangle of shape 1 and the position of
\* shape 1's point in shape 1's frame, and the second Location has those of
\* shape 2
C15_Original ==
    JustEmitted =>
        LET c == Last(ccdContacts)
            a1 == ccdAt.triangle1Alpha
            b1 == ccdAt.triangle1Beta
            a2 == ccdAt.triangle2Alpha
            b2 == ccdAt.triangle2Beta
        IN  /\ c.penetrationPoints[1] =
                  Location(ccdAt.triangle1Id, <<Sub(Sub(One, a1), b1), a1, b1>>,
                      InverseTimes(ccdIn.pose1AtTime1,
                          PointOf(ccdIn.shape1AtTime1, ccdAt.triangle1Id, a1, b1)))
            /\ c.penetrationPoints[2] =
                  Location(ccdAt.triangleId, <<Sub(Sub(One, a2), b2), a2, b2>>,
                      InverseTimes(ccdIn.pose2AtTime1,
                          PointOf(ccdIn.shape2AtTime1, ccdAt.triangleId, a2, b2)))

\* the snapshots of one shape at t0 and t1 disagree, or a shape is empty
Inconsistent ==
    \/ ~CountsAgree
    \/ \E k \in 0 .. (getNumTriangles(ccdIn.shape1AtTime0) - 1) :
          getTriangle(ccdIn.shape1AtTime0, k) # getTriangle(ccdIn.shape1AtTime1, k)
    \/ \E k \in 0 .. (getNumTriangles(ccdIn.shape2AtTime0) - 1) :
          getTriangle(ccdIn.shape2AtTime0, k) # getTriangle(ccdIn.shape2AtTime1, k)

\* C16: calculateCcdContact throws, and returns no contact, exactly when the
\* snapshots at t0 and t1 of a shape are inconsistent; a degenerate triangle
\* alone never makes it throw
C16_Original ==
    /\ pc = "ccdThrown" => Inconsistent /\ ccdContacts = <<>>
    /\ pc = "ccdDone" => ~Inconsistent

\* C26 (as claimed): the epsilon the loop hands to the filter is never
\* negative, and whenever an iteration reaches constraint generation some
\* CONTINUOUS pair holds a contact.
C26_Original ==
    /\ pc = "filter" => ~Lt(epsilon, Zero)
    /\ pc = "generate" =>
          \E p \in Pairs : pairType[p] = CONTINUOUS /\ contacts[p] # <<>>

\* C27: when doUpdate has returned, whichever way the loop was left, no
\* CONTINUOUS pair holds a contact.
C27_EmptyAtReturn ==
    pc = "done" =>
        \A p \in Pairs : pairType[p] = CONTINUOUS => contacts[p] = <<>>

\* doUpdate has returned after the time of impact passed 1, with two
\* CONTINUOUS pairs and a resolve behind it
C27_Witness ==
    /\ pc = "done"
    /\ exit = "toiPassed"
    /\ \A p \in Pairs : pairType[p] = CONTINUOUS /\ contacts[p] = <<>>
    /\ \A p \in Pairs : hist.contacts[p] = <<>>
    /\ lastState.pushes > 0
    /\ everContact

\* C28 (as claimed): an iteration never starts with the accumulated time of
\* impact equal to 1, so line 83 never divides by zero.
C28_Original ==
    pc = "advance" => toi # One

\* C29 (as claimed): for every value of maxIterations, 0 and 1 included,
\* doUpdate runs its loop body maxIterations times at most, and the counter
\* never goes below zero.
C29_Original ==
    /\ bodyCount <= m_maxIterations
    /\ iterations >= 0

\* the kind of the test that gave the time of the contact just appended
WinnerKind ==
    IF ccdSeen.overlap THEN "overlap"
    ELSE LET k == ccdSeen.first[LeastReported][1]
         IN  IF k <= 9 THEN "edgeEdge"
             ELSE IF k <= 12 THEN "vertex1" ELSE "vertex2"

\* the plane normal, not normalized, of triangle id of a shape
PlaneNormal(shape, id) ==
    LET v(k) == getVertexPosition(shape, getTriangle(shape, id)[k + 1])
    IN  Cross(VSub(v(1), v(0)), VSub(v(2), v(0)))

\* u.normalized() and v.normalized() are the same vector
SameUnit(u, v) ==
    IF isZero(u.dir) \/ isZero(v.dir) THEN u.dir = v.dir
    ELSE isZero(Cross(u.dir, v.dir)) /\ Gt(Dot(u.dir, v.dir), Zero)

C30_Original ==
    pc \in {"ccdSwept", "ccdEmit"} =>
        \A k \in 0 .. 2 :
            /\ t1v(k).first = getVertexPosition(ccdIn.shape1AtTime0,
                    getTriangle(ccdIn.shape1AtTime0, ccdAt.triangle1Id)[k + 1])
            /\ t1v(k).second = getVertexPosition(ccdIn.shape1AtTime1,
                    getTriangle(ccdIn.shape1AtTime1, ccdAt.triangle1Id)[k + 1])
            /\ t2v(k).first = getVertexPosition(ccdIn.shape2AtTime0,
                    getTriangle(ccdIn.shape2AtTime0, ccdAt.triangleId)[k + 1])
            /\ t2v(k).second = getVertexPosition(ccdIn.shape2AtTime1,
                    getTriangle(ccdIn.shape2AtTime1, ccdAt.triangleId)[k + 1])

\* C23 (as claimed): after resize(A, numRow, numCol, zeroOut) on a non-null
\* matrix, whatever its size was, A has numRow rows and numCol columns, and
\* all its coefficients are zero if zeroOut is true.
C23_Original ==
    (pc = "resized" /\ resizeCall.A # NullMatrix) =>
        /\ matrixA.rows = resizeCall.numRow
        /\ matrixA.cols = resizeCall.numCol
        /\ resizeCall.zeroOut => \A x \in DOMAIN matrixA.coeff : matrixA.coeff[x] = 0

\* C22: setData stores the data when the last of the calls of connectDevice
\* and disconnectDevice was connectDevice; when there was no such call, or the
\* last was disconnectDevice, it fails its assertion and stores nothing.
C22_SetDataNeedsDevice ==
    outputLog.op = "setData" =>
        IF outputLog.lastDeviceCall = "connectDevice"
        THEN /\ ~outputLog.threw
             /\ m_output.haveData
             /\ m_output.m_lastOutput = outputLog.dataGroup
        ELSE /\ outputLog.threw
             /\ m_output = outputLog.before

\* setData has failed after a disconnectDevice, on a component that had
\* stored other data while a device was connected
C22_Witness ==
    /\ outputLog.op = "setData"
    /\ outputLog.lastDeviceCall = "disconnectDevice"
    /\ outputLog.threw
    /\ m_output.haveData
    /\ m_output.m_lastOutput # outputLog.dataGroup
    /\ \E d \in Devices : deviceProducer[d]

\* C21: doCalculatePosition(time) of an FEM localization gives the position of
\* the point in the previous state for time 0, in the current state for time
\* 1, and previous + time * (current - previous) for a time between the two.
C21_InterpolatesStates ==
    (calculated.kind # "none" /\ ~calculated.threw) =>
        LET previous ==
                computeCartesianCoordinate(femState.previous, m_position.coordinate)
            current ==
                computeCartesianCoordinate(femState.current, m_position.coordinate)
            time == calculated.time
        IN  /\ time = Zero => calculated.position = previous
            /\ time = One => calculated.position = current
            /\ (Lt(Zero, time) /\ Lt(time, One)) =>
                  calculated.position =
                      VAdd(previous, VScale(time, VSub(current, previous)))

\* a position has been calculated at a time strictly between 0 and 1, for a
\* point inside its element that is at different places in the two states
C21_Witness ==
    /\ calculated.kind = "Fem1D"
    /\ ~calculated.threw
    /\ calculated.time = Dbl(1, 4)
    /\ m_position.coordinate = <<Dbl(1, 4), Dbl(3, 4)>>
    /\ calculated.position
          # computeCartesianCoordinate(femState.previous, m_position.coordinate)
    /\ calculated.position
          # computeCartesianCoordinate(femState.current, m_position.coordinate)

\* C25: update creates or modifies the previous shape only when the detection
\* type is CONTINUOUS: an update made with another type leaves the previous
\* shape exactly as it was, it is null as long as no CONTINUOUS update has
\* run, and every update rewrites the current shape from the current state.
C25_PreviousShapeOnlyWhenContinuous ==
    /\ ~shapeLog.continuous => m_previousShape = NullShape
    /\ shapeLog.returned =>
          /\ shapeLog.type # "CONTINUOUS" => m_previousShape = shapeLog.before
          /\ \A nodeId \in 1 .. 2 : m_shape.vertices[nodeId] = odeStates.current[nodeId]

\* a DISCRETE update has returned on a representation whose previous shape
\* exists and differs from the previous state, and has moved the current shape
C25_Witness ==
    /\ shapeLog.returned
    /\ shapeLog.type = "DISCRETE"
    /\ ~m_previousShape.null
    /\ m_previousShape.vertices # odeStates.previous
    /\ m_previousShape.vertices # m_shape.vertices

====
